---- MODULE Spec2Model ----
(***************************************************************************)
(* Pathfinder: locator extraction and stability scoring.                   *)
(*                                                                         *)
(* Strings whose characters the code inspects (class names, inner text)    *)
(* and every other string of a locator are sequences of one-character      *)
(* strings, so that trim, split, length and the class-name patterns are    *)
(* computed as the code computes them.  An optional value (T | undefined,  *)
(* T | null) is a sequence of length at most one.                          *)
(***************************************************************************)
EXTENDS Integers, Sequences, FiniteSets, TLC

VARIABLES
    urls,        \* orchestrate: the URLs to analyze, deduplicated and cut to maxUrls
    urlIndex,    \* orchestrate: 1-based position of the loop over urls
    pages,       \* orchestrate: the PageLocatorReports pushed so far
    errors,      \* orchestrate: the {url, error} entries pushed so far
    report,      \* orchestrate: None, then Some(SiteLocatorReport) once built
    locator,     \* the ExtractedLocator handed to the first scoreLocator call
    score,       \* optional LocatorScore: result of the latest scoreLocator call
    prevScore,   \* optional LocatorScore: result of the call before it
    element,     \* what the browser answers when the element handle is read
    probes,      \* the uniqueness probes issued for the element, with their answers
    extracted,   \* None before extractLocatorsForElement returns, then Some(result),
                 \* the result being None (null) or Some(ExtractedLocator)
    scanElements,  \* scanPageLocators: allElements, each entry what its extraction
                   \* resolves to if it runs to its end: None (null) or Some(locator)
    scanIndex,     \* 1-based position of the loop over allElements
    scanPhase,     \* "loop" between iterations, "race" while awaiting Promise.race,
                   \* "done" once the function has returned
    scanAcc,       \* locators, issues, seenIds, processedCount, skippedCount
    scanOutcomes,  \* what the race of each visited element resolved to
    inFlight,      \* indices of the elements whose extraction is still running
    scanResult,    \* None, then Some(PageLocatorScan)
    maxAttempts,   \* retry: its second argument
    delayMs,       \* retry: its third argument
    attempt,       \* retry: the loop variable
    lastError,     \* retry: None (undefined) or Some(error)
    fnCalls,       \* retry: the calls of fn so far, each "ok" or the error thrown
    waits,         \* retry: the sleeps so far, in milliseconds
    retryResult,   \* retry: None while running, then the value returned or the
                   \* error thrown
    rendered,      \* report consumers: what the latest consumer call returned or wrote
    crawlLimits,   \* crawl: maxPages, maxDepth, sameHost
    queue,         \* crawl: the frontier, entries {url, depth}
    visited,       \* crawl: the Set visited, in insertion order
    discovered,    \* crawl: the Set discovered, in insertion order
    records,       \* crawl: the CrawlRecords pushed so far
    edges,         \* crawl: the CrawlEdges pushed so far
    gotos,         \* crawl: the page.goto calls so far, entries {url, depth}
    browsers,      \* the browsers launched so far, each with its url, whether its
                   \* page was created and whether it is still open
    sessionPhase,  \* position inside the scanPageLocators call of urls[urlIndex]:
                   \* "idle" outside a call, "launched", "navigating", "scanning"
    navAttempt     \* the attempt of retry around page.goto

vars == <<urls, urlIndex, pages, errors, report,
          locator, score, prevScore, element, probes, extracted,
          scanElements, scanIndex, scanPhase, scanAcc, scanOutcomes, inFlight, scanResult,
          maxAttempts, delayMs, attempt, lastError, fnCalls, waits, retryResult,
          rendered, crawlLimits, queue, visited, discovered, records, edges, gotos,
          browsers, sessionPhase, navAttempt>>

orchestrateVars == <<urls, urlIndex, pages, errors, report>>

scorerVars == <<locator, score, prevScore>>

extractorVars == <<element, probes, extracted>>

scanVars == <<scanElements, scanIndex, scanPhase, scanAcc, scanOutcomes, inFlight, scanResult>>

retryVars == <<maxAttempts, delayMs, attempt, lastError, fnCalls, waits, retryResult>>

consumerVars == <<rendered>>

crawlVars == <<crawlLimits, queue, visited, discovered, records, edges, gotos>>

sessionVars == <<browsers, sessionPhase, navAttempt>>

----------------------------------------------------------------------------
(* Optional values                                                         *)

None == <<>>

Some(v) == <<v>>

\* no scanPageLocators call is modelled
ScanIdle ==
    /\ scanElements = <<>>
    /\ scanIndex = 1
    /\ scanPhase = "done"
    /\ scanAcc = None
    /\ scanOutcomes = <<>>
    /\ inFlight = {}
    /\ scanResult = None

\* no retry call is modelled
RetryIdle ==
    /\ maxAttempts = 0
    /\ delayMs = 0
    /\ attempt = 1
    /\ lastError = None
    /\ fnCalls = <<>>
    /\ waits = <<>>
    /\ retryResult = None

\* no report consumer has been called
ConsumerIdle == rendered = None

\* no crawl is modelled
CrawlIdle ==
    /\ crawlLimits = None
    /\ queue = <<>>
    /\ visited = <<>>
    /\ discovered = <<>>
    /\ records = <<>>
    /\ edges = <<>>
    /\ gotos = <<>>

\* no browser has been launched
SessionIdle ==
    /\ browsers = <<>>
    /\ sessionPhase = "idle"
    /\ navAttempt = 1

\* JavaScript truthiness of an optional string: neither undefined/null nor ""
Truthy(o) == o # None /\ o[1] # <<>>

\* `x || undefined` for an optional string
OrUndefined(o) == IF Truthy(o) THEN o ELSE None

----------------------------------------------------------------------------
(* Characters and string literals                                          *)

LowerLetters ==
    {"a","b","c","d","e","f","g","h","i","j","k","l","m",
     "n","o","p","q","r","s","t","u","v","w","x","y","z"}

UpperLetters ==
    {"A","B","C","D","E","F","G","H","I","J","K","L","M",
     "N","O","P","Q","R","S","T","U","V","W","X","Y","Z"}

Digits == {"0","1","2","3","4","5","6","7","8","9"}

Letters == LowerLetters \cup UpperLetters

HexDigits == Digits \cup {"a","b","c","d","e","f","A","B","C","D","E","F"}

AlphaNum == Letters \cup Digits

RECURSIVE Repeat(_, _)
Repeat(s, n) == IF n = 0 THEN <<>> ELSE s \o Repeat(s, n - 1)

\* every character of s from position i on lies in the set cs
AllIn(s, i, cs) == \A k \in i..Len(s) : s[k] \in cs

----------------------------------------------------------------------------
(* score.ts                                                                *)

Strategies ==
    {"testId", "data_attr", "id_attr", "aria_label", "role", "autocomplete",
     "name_attr", "label", "title", "placeholder", "text", "class", "css",
     "xpath"}

STRATEGY_SCORES ==
    [s \in Strategies |->
        CASE s = "testId"       -> 100
          [] s = "data_attr"    -> 95
          [] s = "id_attr"      -> 90
          [] s = "aria_label"   -> 85
          [] s = "role"         -> 80
          [] s = "autocomplete" -> 80
          [] s = "name_attr"    -> 75
          [] s = "label"        -> 75
          [] s = "title"        -> 70
          [] s = "placeholder"  -> 70
          [] s = "text"         -> 50
          [] s = "class"        -> 40
          [] s = "css"          -> 30
          [] s = "xpath"        -> 20]

INITIAL_ELO == 1500

\* /^[a-z]-[0-9a-f]{5,}$/i
MatchesCssModule(c) ==
    /\ Len(c) >= 7
    /\ c[1] \in Letters
    /\ c[2] = "-"
    /\ AllIn(c, 3, HexDigits)

\* /^[a-z]{1,3}[0-9]{3,}$/i
MatchesShortPrefix(c) ==
    \E n \in 1..3 :
        /\ Len(c) >= n + 3
        /\ \A k \in 1..n : c[k] \in Letters
        /\ AllIn(c, n + 1, Digits)

\* /^_[a-z0-9_-]{10,}$/i
MatchesWebpack(c) ==
    /\ Len(c) >= 11
    /\ c[1] = "_"
    /\ AllIn(c, 2, AlphaNum \cup {"_", "-"})

\* /__[0-9a-f]{6,}/i   (not anchored)
MatchesHashSuffix(c) ==
    \E i \in 1..Len(c) :
        /\ i + 7 <= Len(c)
        /\ c[i] = "_"
        /\ c[i + 1] = "_"
        /\ \A k \in (i + 2)..(i + 7) : c[k] \in HexDigits

\* /^css-[0-9a-z]{6,}$/i
MatchesStyled(c) ==
    /\ Len(c) >= 10
    /\ c[1] \in {"c", "C"}
    /\ c[2] \in {"s", "S"}
    /\ c[3] \in {"s", "S"}
    /\ c[4] = "-"
    /\ AllIn(c, 5, AlphaNum)

isDynamicClass(className) ==
    \/ MatchesCssModule(className)
    \/ MatchesShortPrefix(className)
    \/ MatchesWebpack(className)
    \/ MatchesHashSuffix(className)
    \/ MatchesStyled(className)

\* Array.prototype.filter
RECURSIVE FilterDynamic(_)
FilterDynamic(cs) ==
    IF cs = <<>> THEN <<>>
    ELSE IF isDynamicClass(Head(cs))
         THEN <<Head(cs)>> \o FilterDynamic(Tail(cs))
         ELSE FilterDynamic(Tail(cs))

\* alternatives.filter(a => a.isUnique && STRATEGY_SCORES[a.strategy] >= min)
RECURSIVE FilterUniqueAtLeast(_, _)
FilterUniqueAtLeast(alts, min) ==
    IF alts = <<>> THEN <<>>
    ELSE IF Head(alts).isUnique /\ STRATEGY_SCORES[Head(alts).strategy] >= min
         THEN <<Head(alts)>> \o FilterUniqueAtLeast(Tail(alts), min)
         ELSE FilterUniqueAtLeast(Tail(alts), min)

SomeUnique(alts) == \E i \in 1..Len(alts) : alts[i].isUnique

\* the quality threshold of the second tier taken as 75
scoreUniquenessHighOnly(loc) ==
    IF loc.isUnique THEN 100
    ELSE IF FilterUniqueAtLeast(loc.alternatives, 75) # <<>> THEN 80
    ELSE IF SomeUnique(loc.alternatives) THEN 60
    ELSE 20

scoreUniqueness(loc) ==
    IF loc.isUnique THEN 100
    ELSE IF \E i \in 1..Len(loc.alternatives) :
                /\ loc.alternatives[i].isUnique
                /\ STRATEGY_SCORES[loc.alternatives[i].strategy] >= 70
         THEN 80
    ELSE IF SomeUnique(loc.alternatives) THEN 60
    ELSE 20

\* the band limits compared with < instead of <=
scoreDepthExclusive(depth) ==
    IF depth < 3 THEN 100
    ELSE IF depth < 5 THEN 90
    ELSE IF depth < 8 THEN 75
    ELSE IF depth < 10 THEN 60
    ELSE IF depth < 15 THEN 40
    ELSE 20

scoreDepth(depth) ==
    IF depth <= 3 THEN 100
    ELSE IF depth <= 5 THEN 90
    ELSE IF depth <= 8 THEN 75
    ELSE IF depth <= 10 THEN 60
    ELSE IF depth <= 15 THEN 40
    ELSE 20

Max(a, b) == IF a >= b THEN a ELSE b

Min(a, b) == IF a <= b THEN a ELSE b

\* the penalty without the test of the primary strategy
ClassPenaltyAnyStrategy(loc) ==
    IF loc.classes # None
    THEN Len(FilterDynamic(loc.classes[1])) * 10
    ELSE 0

\* penalty for dynamic classes: only for the class strategy with classes set
ClassPenalty(loc) ==
    IF loc.strategy = "class" /\ loc.classes # None
    THEN Len(FilterDynamic(loc.classes[1])) * 10
    ELSE 0

\* penalty for long text: only for the text strategy with a non-empty text
TextPenalty(loc) ==
    IF loc.strategy = "text" /\ Truthy(loc.text)
    THEN IF Len(loc.text[1]) > 50 THEN 20
         ELSE IF Len(loc.text[1]) > 30 THEN 10
         ELSE 0
    ELSE 0

\* the top tier tested with === 3 instead of >= 3
AlternativesBonusExactlyThree(loc) ==
    LET goodAlts == FilterUniqueAtLeast(loc.alternatives, 75)
    IN  IF Len(goodAlts) = 3 THEN 15
        ELSE IF Len(goodAlts) = 2 THEN 10
        ELSE IF Len(goodAlts) = 1 THEN 5
        ELSE 0

AlternativesBonus(loc) ==
    LET goodAlts == FilterUniqueAtLeast(loc.alternatives, 75)
    IN  IF Len(goodAlts) >= 3 THEN 15
        ELSE IF Len(goodAlts) = 2 THEN 10
        ELSE IF Len(goodAlts) = 1 THEN 5
        ELSE 0

SemanticBonus(loc) ==
    IF Truthy(loc.role) \/ Truthy(loc.ariaLabel) THEN 5 ELSE 0

\* the clamp without its lower limit
ClampUpperOnly(x) == Min(100, x)

\* Math.max(0, Math.min(100, score))
Clamp(x) == Max(0, Min(100, x))

scoreStability(loc) ==
    Clamp(STRATEGY_SCORES[loc.strategy] - ClassPenalty(loc) - TextPenalty(loc)
          + AlternativesBonus(loc) + SemanticBonus(loc))

\* exact halves rounded down
RoundHalfDown(h) == (h + 49) \div 100

\* Math.round of a non-negative number given in hundredths: halves go up
RoundHundredths(h) == (h + 50) \div 100

\* the four sub-scores weighted alike
calculateTotalScoreEqualWeights(strategyScore, uniquenessScore, depthScore, stabilityScore) ==
    RoundHundredths(strategyScore * 25 + uniquenessScore * 25
                    + depthScore * 25 + stabilityScore * 25)

\* the strategy term subtracted instead of added
calculateTotalScoreMinusStrategy(strategyScore, uniquenessScore, depthScore, stabilityScore) ==
    RoundHundredths(uniquenessScore * 30 + depthScore * 20
                    + stabilityScore * 10 - strategyScore * 40)

\* The code adds the four products in double precision.  Every sub-score it
\* can produce is a multiple of 5 in 0..100, and for those the double sum and
\* Math.round agree with the exact value computed here.
calculateTotalScore(strategyScore, uniquenessScore, depthScore, stabilityScore) ==
    RoundHundredths(strategyScore * 40 + uniquenessScore * 30
                    + depthScore * 20 + stabilityScore * 10)

\* the thresholds compared with > instead of >=
assignGradeExclusive(s) ==
    IF s > 90 THEN "A"
    ELSE IF s > 80 THEN "B"
    ELSE IF s > 70 THEN "C"
    ELSE IF s > 60 THEN "D"
    ELSE "F"

assignGrade(s) ==
    IF s >= 90 THEN "A"
    ELSE IF s >= 80 THEN "B"
    ELSE IF s >= 70 THEN "C"
    ELSE IF s >= 60 THEN "D"
    ELSE "F"

----------------------------------------------------------------------------
(* Text produced by the scorer.  A message is the template of the source   *)
(* with the interpolated numbers and strings listed in order of appearance. *)

Msg(text, nums, strs) == [text |-> text, nums |-> nums, strs |-> strs]

\* strategy.replace(/_/g, " ")
StrategyName(s) ==
    CASE s = "data_attr"  -> "data attr"
      [] s = "id_attr"    -> "id attr"
      [] s = "aria_label" -> "aria label"
      [] s = "name_attr"  -> "name attr"
      [] OTHER            -> s

\* Array.prototype.join(", ")
RECURSIVE JoinComma(_)
JoinComma(ss) ==
    IF ss = <<>> THEN <<>>
    ELSE IF Len(ss) = 1 THEN Head(ss)
    ELSE Head(ss) \o <<",", " ">> \o JoinComma(Tail(ss))

\* Array.prototype.sort with a comparator b.key - a.key (stable, descending):
\* p goes behind every element whose key is >= its own
RECURSIVE InsertDesc(_, _)
InsertDesc(sorted, p) ==
    IF sorted = <<>> THEN <<p>>
    ELSE IF Head(sorted).key >= p.key
         THEN <<Head(sorted)>> \o InsertDesc(Tail(sorted), p)
         ELSE <<p>> \o sorted

RECURSIVE SortDesc(_)
SortDesc(pairs) ==
    IF pairs = <<>> THEN <<>>
    ELSE InsertDesc(SortDesc(SubSeq(pairs, 1, Len(pairs) - 1)), pairs[Len(pairs)])

\* Array.prototype.slice(0, n)
Take(s, n) == SubSeq(s, 1, Min(n, Len(s)))

HasDynamicClass(loc) ==
    loc.classes # None /\ \E i \in 1..Len(loc.classes[1]) : isDynamicClass(loc.classes[1][i])

generateReasoning(loc, scores) ==
    [strategy |->
        Msg("Using ${strategyName} (score: ${scores.strategy}/100). ${verdict}",
            <<scores.strategy>>,
            <<StrategyName(loc.strategy),
              IF scores.strategy >= 90 THEN "Excellent choice - highly resistant to changes."
              ELSE IF scores.strategy >= 75 THEN "Good choice - reasonably stable."
              ELSE IF scores.strategy >= 60 THEN "Acceptable but could be better."
              ELSE IF scores.strategy >= 40 THEN "Risky - prone to breaking."
              ELSE "Very risky - highly brittle.">>),
     uniqueness |->
        IF loc.isUnique
        THEN Msg("Unique on page (score: ${scores.uniqueness}/100). No ambiguity.",
                 <<scores.uniqueness>>, <<>>)
        ELSE IF SomeUnique(loc.alternatives)
        THEN Msg("Not unique, but has unique alternative (score: ${scores.uniqueness}/100). Consider switching.",
                 <<scores.uniqueness>>, <<>>)
        ELSE Msg("Not unique on page (score: ${scores.uniqueness}/100). Critical issue - will match multiple elements.",
                 <<scores.uniqueness>>, <<>>),
     depth |->
        Msg("DOM depth: ${locator.depth} levels (score: ${scores.depth}/100). ${verdict}",
            <<loc.depth, scores.depth>>,
            <<IF loc.depth <= 5 THEN "Shallow nesting - excellent."
              ELSE IF loc.depth <= 10 THEN "Moderate nesting - acceptable."
              ELSE "Deep nesting - refactoring could break this.">>),
     stability |->
        Msg("Stability analysis (score: ${scores.stability}/100). ${notes}",
            <<scores.stability>>,
            (IF HasDynamicClass(loc)
             THEN <<"Warning: Uses dynamically generated classes. ">> ELSE <<>>)
            \o (IF Truthy(loc.text) /\ Len(loc.text[1]) > 30
                THEN <<"Warning: Long text content may change. ">> ELSE <<>>)
            \o (IF Truthy(loc.role) \/ Truthy(loc.ariaLabel)
                THEN <<"Bonus: Semantic HTML detected.">> ELSE <<>>))]

WarnNoUnique == "CRITICAL: No unique locator available - will match multiple elements"

WarnBrittle == "Brittle locator type - highly likely to break with DOM changes"

WarnDeep == "Extremely deep nesting - very fragile"

WarnDynamic == "Dynamic classes detected: ${dynamicClasses}"

WarnLongText == "Long text content - likely to change with copy updates"

WarnLowScore == "Low overall score - find a better alternative"

\* the warnings with the deep-nesting one from depth 15 on
generateWarningsDeepFrom15(loc, totalScore) ==
    (IF ~loc.isUnique /\ ~SomeUnique(loc.alternatives)
     THEN <<Msg(WarnNoUnique, <<>>, <<>>)>> ELSE <<>>)
    \o (IF loc.strategy = "xpath" \/ loc.strategy = "css"
        THEN <<Msg(WarnBrittle, <<>>, <<>>)>> ELSE <<>>)
    \o (IF loc.depth >= 15
        THEN <<Msg(WarnDeep, <<>>, <<>>)>> ELSE <<>>)
    \o (IF HasDynamicClass(loc)
        THEN <<Msg(WarnDynamic, <<>>, <<JoinComma(FilterDynamic(loc.classes[1]))>>)>>
        ELSE <<>>)
    \o (IF loc.strategy = "text" /\ Truthy(loc.text) /\ Len(loc.text[1]) > 50
        THEN <<Msg(WarnLongText, <<>>, <<>>)>> ELSE <<>>)
    \o (IF totalScore < 60
        THEN <<Msg(WarnLowScore, <<>>, <<>>)>> ELSE <<>>)

generateWarnings(loc, totalScore) ==
    (IF ~loc.isUnique /\ ~SomeUnique(loc.alternatives)
     THEN <<Msg(WarnNoUnique, <<>>, <<>>)>> ELSE <<>>)
    \o (IF loc.strategy = "xpath" \/ loc.strategy = "css"
        THEN <<Msg(WarnBrittle, <<>>, <<>>)>> ELSE <<>>)
    \o (IF loc.depth > 15
        THEN <<Msg(WarnDeep, <<>>, <<>>)>> ELSE <<>>)
    \o (IF HasDynamicClass(loc)
        THEN <<Msg(WarnDynamic, <<>>, <<JoinComma(FilterDynamic(loc.classes[1]))>>)>>
        ELSE <<>>)
    \o (IF loc.strategy = "text" /\ Truthy(loc.text) /\ Len(loc.text[1]) > 50
        THEN <<Msg(WarnLongText, <<>>, <<>>)>> ELSE <<>>)
    \o (IF totalScore < 60
        THEN <<Msg(WarnLowScore, <<>>, <<>>)>> ELSE <<>>)

\* alternatives.filter(a => a.isUnique && STRATEGY_SCORES[a.strategy] > min)
RECURSIVE FilterUniqueAbove(_, _)
FilterUniqueAbove(alts, min) ==
    IF alts = <<>> THEN <<>>
    ELSE IF Head(alts).isUnique /\ STRATEGY_SCORES[Head(alts).strategy] > min
         THEN <<Head(alts)>> \o FilterUniqueAbove(Tail(alts), min)
         ELSE FilterUniqueAbove(Tail(alts), min)

suggestBetterAlternatives(loc) ==
    LET better == FilterUniqueAbove(loc.alternatives, STRATEGY_SCORES[loc.strategy])
        betterAlts == SortDesc([i \in 1..Len(better) |->
                          [key |-> STRATEGY_SCORES[better[i].strategy], item |-> better[i]]])
        top == Take(betterAlts, 3)
        suggestions ==
            [i \in 1..Len(top) |->
                Msg("Use ${strategy}: ${value} (score: ${score}/100)",
                    <<top[i].key>>,
                    <<StrategyName(top[i].item.strategy), top[i].item.value>>)]
            \o (IF ~\E i \in 1..Len(loc.alternatives) : loc.alternatives[i].strategy = "testId"
                THEN <<Msg("Add data-testid attribute for maximum stability", <<>>, <<>>)>>
                ELSE <<>>)
    IN  IF Len(suggestions) > 0 THEN Some(suggestions) ELSE None

scoreLocator(loc) ==
    LET strategyScore   == STRATEGY_SCORES[loc.strategy]
        uniquenessScore == scoreUniqueness(loc)
        depthScore      == scoreDepth(loc.depth)
        stabilityScore  == scoreStability(loc)
        totalScore      == calculateTotalScore(strategyScore, uniquenessScore,
                                               depthScore, stabilityScore)
    IN  [locator            |-> loc,
         stabilityScore     |-> stabilityScore,
         uniquenessScore    |-> uniquenessScore,
         depthScore         |-> depthScore,
         strategyScore      |-> strategyScore,
         totalScore         |-> totalScore,
         grade              |-> assignGrade(totalScore),
         eloRating          |-> INITIAL_ELO,
         reasoning          |-> generateReasoning(loc,
                                    [strategy |-> strategyScore, uniqueness |-> uniquenessScore,
                                     depth |-> depthScore, stability |-> stabilityScore]),
         recommended        |-> totalScore >= 70,
         warnings           |-> generateWarnings(loc, totalScore),
         betterAlternatives |-> suggestBetterAlternatives(loc)]

----------------------------------------------------------------------------
(* Inputs of the scorer: well-formed ExtractedLocators                     *)

MaxDepth == 17

sButton == <<"b","u","t","t","o","n">>

sSubmit == <<"S","u","b","m","i","t">>

sNav == <<"n","a","v">>

sClose == <<"C","l","o","s","e">>

sXPath == <<"/","h","t","m","l","/","b","o","d","y","/","b","u","t","t","o","n","[","1","]">>

sCss == <<"b","u","t","t","o","n",".","b","t","n">>

sBtn == <<"b","t","n">>

\* not generated-looking: the first pattern allows one letter before the dash
sButtonHash == <<"b","u","t","t","o","n","-","a","1","b","2","c","3">>

sCssHash == <<"c","s","s","-","a","1","b","2","c","3">>

sSt123 == <<"s","t","1","2","3">>

sCardHash == <<"c","a","r","d","_","_","a","1","b","2","c","3">>

sModuleHash == <<"a","-","1","b","2","c","3">>

sWebpack == <<"_","3","x","4","y","5","z","6","w","7","v","8">>

\* texts of 31 and 51 characters
sText31 == Repeat(<<"l","o","r","e","m"," ">>, 5) \o <<"x">>

sText51 == Repeat(<<"l","o","r","e","m"," ">>, 8) \o <<"x","y","z">>

Alt(strategy, value, isUnique) ==
    [strategy |-> strategy, value |-> value, isUnique |-> isUnique]

XPathFallback == Alt("xpath", sXPath, TRUE)

CssFallback == Alt("css", sCss, FALSE)

\* alternatives lists of the first call
ScorerAlternatives ==
    { <<>>,
      <<XPathFallback, CssFallback>>,
      <<Alt("id_attr", sNav, FALSE), Alt("class", sBtn, FALSE), CssFallback>>,
      <<Alt("text", sSubmit, TRUE), CssFallback>>,
      <<Alt("title", sSubmit, TRUE), Alt("class", sBtn, TRUE)>>,
      <<Alt("id_attr", sNav, TRUE), XPathFallback, CssFallback>>,
      <<Alt("testId", sSubmit, TRUE), Alt("role", sButton, TRUE), Alt("name_attr", sNav, FALSE)>>,
      <<Alt("testId", sSubmit, TRUE), Alt("id_attr", sNav, TRUE), Alt("aria_label", sClose, TRUE),
        XPathFallback, CssFallback>> }

\* alternatives a second call may add
ExtraAlternatives ==
    { Alt("name_attr", sNav, TRUE),      \* unique, high quality (75)
      Alt("placeholder", sSubmit, TRUE), \* unique, score 70
      Alt("class", sBtn, TRUE),          \* unique, low quality
      Alt("role", sButton, FALSE) }      \* high quality, not unique

ScorerClasses ==
    { Some(<<sBtn, sButtonHash>>),
      Some(<<sCssHash>>),
      Some(<<sBtn, sCssHash, sSt123>>),
      Some(<<sCssHash, sSt123, sCardHash, sModuleHash, sWebpack>>) }

ScorerTexts == { Some(<<>>), Some(sSubmit), Some(sText31), Some(sText51) }

ScorerInputs ==
    { [tagName       |-> sButton,
       elementType   |-> "button",
       strategy      |-> s,
       value         |-> sSubmit,
       alternatives  |-> alts,
       xpath         |-> sXPath,
       cssSelector   |-> sCss,
       depth         |-> d,
       text          |-> None,
       ariaLabel     |-> aria,
       role          |-> role,
       classes       |-> None,
       id            |-> None,
       name          |-> None,
       isUnique      |-> u,
       siblingCount  |-> 1,
       parentTag     |-> None,
       parentClasses |-> None] :
      s \in Strategies, d \in 0..MaxDepth, u \in BOOLEAN,
      alts \in ScorerAlternatives,
      aria \in {None, Some(sClose)}, role \in {None, Some(sButton)} }

InitScorer ==
    /\ locator \in ScorerInputs
    /\ score = None
    /\ prevScore = None
    /\ element = None
    /\ probes = <<>>
    /\ extracted = None
    /\ urls = <<>>
    /\ urlIndex = 1
    /\ pages = <<>>
    /\ errors = <<>>
    /\ report = None
    /\ ScanIdle
    /\ RetryIdle
    /\ ConsumerIdle
    /\ CrawlIdle
    /\ SessionIdle

\* first call: scoreLocator(locator)
ScoreLocator ==
    /\ score = None
    /\ score' = Some(scoreLocator(locator))
    /\ UNCHANGED <<locator, prevScore, extractorVars, orchestrateVars, scanVars, retryVars,
                   consumerVars, crawlVars, sessionVars>>

\* a second call, on the locator `loc` derived from the one scored first
ScoreNext(loc) ==
    /\ score # None
    /\ prevScore = None
    /\ prevScore' = score
    /\ score' = Some(scoreLocator(loc))
    /\ UNCHANGED <<locator, extractorVars, orchestrateVars, scanVars, retryVars,
                   consumerVars, crawlVars, sessionVars>>

ScoreAgain == ScoreNext(locator)

ScoreWithAlternative ==
    \E a \in ExtraAlternatives :
        ScoreNext([locator EXCEPT !.alternatives = Append(@, a)])

ScoreWithStrategy ==
    \E s \in Strategies \ {locator.strategy} :
        ScoreNext([locator EXCEPT !.strategy = s])

ScoreWithClasses ==
    \E c \in ScorerClasses : ScoreNext([locator EXCEPT !.classes = c])

ScoreWithText ==
    \E t \in ScorerTexts : ScoreNext([locator EXCEPT !.text = t])

ScoreDeeper ==
    /\ locator.depth < MaxDepth
    /\ ScoreNext([locator EXCEPT !.depth = @ + 1])

NextScorer ==
    \/ ScoreLocator
    \/ ScoreAgain
    \/ ScoreWithAlternative
    \/ ScoreWithStrategy
    \/ ScoreWithClasses
    \/ ScoreWithText
    \/ ScoreDeeper

SpecScorer == InitScorer /\ [][NextScorer]_vars

----------------------------------------------------------------------------
(* Properties of the scorer                                                *)

Both == score # None /\ prevScore # None

First == prevScore[1]

Second == score[1]

DynamicCount(classes) ==
    IF classes = None THEN 0
    ELSE Cardinality({i \in 1..Len(classes[1]) : isDynamicClass(classes[1][i])})

Percent == 0..100

SubScoresInRange(o) ==
    o # None =>
        /\ o[1].strategyScore \in Percent
        /\ o[1].uniquenessScore \in Percent
        /\ o[1].depthScore \in Percent
        /\ o[1].stabilityScore \in Percent
        /\ o[1].totalScore \in Percent

\* C1: every LocatorScore scoreLocator returns, for any strategy of the
\* table, depth, alternatives, classes, text, role and aria-label, has its
\* strategy, uniqueness, depth, stability and total scores in 0..100.
C1_ScoresInRange == SubScoresInRange(score) /\ SubScoresInRange(prevScore)

\* a class-primary locator whose five generated class names push the
\* stability below zero before clamping
C1_Witness ==
    /\ Both
    /\ Second.locator.strategy = "class"
    /\ DynamicCount(Second.locator.classes) = 5
    /\ First.stabilityScore = 40
    /\ Second.stabilityScore = 0

GradeMatches(o) ==
    o # None =>
        LET t == o[1].totalScore
            g == o[1].grade
        IN  /\ g \in {"A", "B", "C", "D", "F"}
            /\ (g = "A") <=> (t >= 90)
            /\ (g = "B") <=> (t \in 80..89)
            /\ (g = "C") <=> (t \in 70..79)
            /\ (g = "D") <=> (t \in 60..69)
            /\ (g = "F") <=> (t <= 59)
            /\ o[1].recommended <=> (t >= 70)
            /\ o[1].recommended <=> (g \in {"A", "B", "C"})

\* C2: grade is A iff totalScore >= 90, B iff 80..89, C iff 70..79, D iff
\* 60..69, F iff <= 59, and recommended holds iff totalScore >= 70, that is
\* iff the grade is A, B or C.
C2_GradeThresholds == GradeMatches(score) /\ GradeMatches(prevScore)

\* two calls whose totals lie on either side of the C/D boundary
C2_Witness ==
    /\ Both
    /\ First.totalScore = 69 /\ First.grade = "D" /\ ~First.recommended
    /\ Second.totalScore = 70 /\ Second.grade = "C" /\ Second.recommended

WeightedSum(o) ==
    40 * o.strategyScore + 30 * o.uniquenessScore
    + 20 * o.depthScore + 10 * o.stabilityScore

NearestHalfUp(o) ==
    o # None =>
        /\ 100 * o[1].totalScore <= WeightedSum(o[1]) + 50
        /\ WeightedSum(o[1]) + 50 < 100 * o[1].totalScore + 100

\* C3: totalScore is (40*strategy + 30*uniqueness + 20*depth + 10*stability)
\* / 100 rounded to the nearest integer, exact halves rounded up; sub-scores
\* 100/100/90/100 give 98 and 20/100/20/20 give 44.
C3_TotalIsRoundedWeightedSum ==
    /\ NearestHalfUp(score)
    /\ NearestHalfUp(prevScore)
    /\ calculateTotalScore(100, 100, 90, 100) = 98
    /\ calculateTotalScore(20, 100, 20, 20) = 44

\* a total whose weighted sum is an exact half
C3_Witness ==
    /\ score # None
    /\ WeightedSum(Second) % 100 = 50
    /\ 100 * Second.totalScore = WeightedSum(Second) + 50

UniquenessAsDocumented(o) ==
    o # None =>
        LET L == o[1].locator
            u == o[1].uniquenessScore
            goodUnique == \E i \in 1..Len(L.alternatives) :
                              /\ L.alternatives[i].isUnique
                              /\ STRATEGY_SCORES[L.alternatives[i].strategy] >= 70
            anyUnique  == \E i \in 1..Len(L.alternatives) : L.alternatives[i].isUnique
        IN  /\ u \in {100, 80, 60, 20}
            /\ L.isUnique => u = 100
            /\ (~L.isUnique /\ goodUnique) => u = 80
            /\ (~L.isUnique /\ ~goodUnique /\ anyUnique) => u = 60
            /\ (u = 20) <=> (~L.isUnique /\ ~anyUnique)

\* C4: uniquenessScore is 100 if the primary is unique, else 80 if some
\* alternative is unique with a strategy score >= 70, else 60 if any
\* alternative is unique, else 20; 20 exactly when nothing is unique.
C4_UniquenessTiers == UniquenessAsDocumented(score) /\ UniquenessAsDocumented(prevScore)

\* a non-unique primary with only a low-quality unique alternative, then
\* with a unique alternative of score 70 added
C4_Witness ==
    /\ Both
    /\ ~First.locator.isUnique
    /\ First.uniquenessScore = 60
    /\ Second.uniquenessScore = 80
    /\ STRATEGY_SCORES[Second.locator.alternatives[Len(Second.locator.alternatives)].strategy] = 70

DepthBands(o) ==
    o # None =>
        LET d  == o[1].locator.depth
            ds == o[1].depthScore
        IN  /\ d <= 3 => ds = 100
            /\ d \in 4..5 => ds = 90
            /\ d \in 6..8 => ds = 75
            /\ d \in 9..10 => ds = 60
            /\ d > 15 => ds = 20

\* C5: depthScore depends only on depth, never increases with depth, changes
\* only when depth crosses 3, 5, 8, 10 or 15, and is 100 for depth <= 3, 90
\* for 4..5, 75 for 6..8, 60 for 9..10 and 20 for depth > 15.
C5_DepthScore ==
    /\ DepthBands(score)
    /\ DepthBands(prevScore)
    /\ Both =>
        /\ Second.locator.depth = First.locator.depth
              => Second.depthScore = First.depthScore
        /\ Second.locator.depth >= First.locator.depth
              => Second.depthScore <= First.depthScore
        /\ (Second.locator.depth = First.locator.depth + 1
            /\ Second.depthScore # First.depthScore)
              => First.locator.depth \in {3, 5, 8, 10, 15}

\* the step from depth 15 to depth 16
C5_Witness ==
    /\ Both
    /\ First.locator.depth = 15 /\ First.depthScore = 40
    /\ Second.locator.depth = 16 /\ Second.depthScore = 20

LastAlt(L) == L.alternatives[Len(L.alternatives)]

\* L2 is L with one more alternative, unique and of strategy score >= 75
GoodAltAppended(L, L2) ==
    /\ Len(L2.alternatives) = Len(L.alternatives) + 1
    /\ L2 = [L EXCEPT !.alternatives = Append(@, LastAlt(L2))]
    /\ LastAlt(L2).isUnique
    /\ STRATEGY_SCORES[LastAlt(L2).strategy] >= 75

\* C6: appending one alternative that is unique and of strategy score >= 75,
\* everything else unchanged, lowers neither stabilityScore nor totalScore.
C6_GoodAlternativeMonotone ==
    (Both /\ GoodAltAppended(First.locator, Second.locator)) =>
        /\ Second.stabilityScore >= First.stabilityScore
        /\ Second.totalScore >= First.totalScore

\* a fourth good alternative is added to three
C6_Witness ==
    /\ Both
    /\ GoodAltAppended(First.locator, Second.locator)
    /\ Len(FilterUniqueAtLeast(First.locator.alternatives, 75)) = 3
    /\ Len(FilterUniqueAtLeast(Second.locator.alternatives, 75)) = 4
    /\ First.stabilityScore < 100

\* C7: of two locators that differ only in primary strategy and have equal
\* uniqueness, depth and stability sub-scores, the one with the higher
\* strategy-table entry has a totalScore at least the other's.
C7_StrategyOrderPreserved ==
    (/\ Both
     /\ Second.locator = [First.locator EXCEPT !.strategy = Second.locator.strategy]
     /\ Second.uniquenessScore = First.uniquenessScore
     /\ Second.depthScore = First.depthScore
     /\ Second.stabilityScore = First.stabilityScore) =>
        /\ STRATEGY_SCORES[Second.locator.strategy] >= STRATEGY_SCORES[First.locator.strategy]
              => Second.totalScore >= First.totalScore
        /\ STRATEGY_SCORES[Second.locator.strategy] <= STRATEGY_SCORES[First.locator.strategy]
              => Second.totalScore <= First.totalScore

\* id and aria-label primaries whose stability is 100 for both
C7_Witness ==
    /\ Both
    /\ First.locator.strategy = "aria_label"
    /\ Second.locator = [First.locator EXCEPT !.strategy = "id_attr"]
    /\ Second.uniquenessScore = First.uniquenessScore
    /\ Second.stabilityScore = First.stabilityScore
    /\ Second.totalScore > First.totalScore

LongTextPenalty(text) ==
    IF ~Truthy(text) THEN 0
    ELSE IF Len(text[1]) > 50 THEN 20
    ELSE IF Len(text[1]) > 30 THEN 10
    ELSE 0

\* C8: the dynamic-class penalty (10 per generated-looking class) applies
\* only to a class primary and the long-text penalty (20 above 50
\* characters, else 10 above 30) only to a text primary; for any other
\* primary strategy stabilityScore does not depend on classes or text.
C8_PenaltiesOnlyForOwnStrategy ==
    /\ (Both /\ Second.locator = [First.locator EXCEPT !.classes = Second.locator.classes]) =>
          IF First.locator.strategy = "class"
          THEN Second.stabilityScore
                 = Max(0, First.stabilityScore
                          + 10 * DynamicCount(First.locator.classes)
                          - 10 * DynamicCount(Second.locator.classes))
          ELSE Second.stabilityScore = First.stabilityScore
    /\ (Both /\ Second.locator = [First.locator EXCEPT !.text = Second.locator.text]) =>
          IF First.locator.strategy = "text"
          THEN Second.stabilityScore
                 = First.stabilityScore + LongTextPenalty(First.locator.text)
                   - LongTextPenalty(Second.locator.text)
          ELSE Second.stabilityScore = First.stabilityScore

\* a testId primary gets the class css-a1b2c3 and keeps its stability
C8_Witness ==
    /\ Both
    /\ First.locator.strategy = "testId"
    /\ First.locator.classes = None
    /\ Second.locator = [First.locator EXCEPT !.classes = Some(<<sCssHash>>)]
    /\ isDynamicClass(sCssHash)
    /\ First.locator.alternatives = <<>>
    /\ ~Truthy(First.locator.role) /\ ~Truthy(First.locator.ariaLabel)
    /\ Second.stabilityScore = First.stabilityScore

----------------------------------------------------------------------------
(* utils.ts: safeText                                                      *)

Whitespace == {" ", "\t", "\n"}

RECURSIVE TrimStart(_)
TrimStart(s) ==
    IF s # <<>> /\ Head(s) \in Whitespace THEN TrimStart(Tail(s)) ELSE s

RECURSIVE TrimEnd(_)
TrimEnd(s) ==
    IF s # <<>> /\ s[Len(s)] \in Whitespace THEN TrimEnd(SubSeq(s, 1, Len(s) - 1)) ELSE s

\* String.prototype.trim
Trim(s) == TrimEnd(TrimStart(s))

\* replace(/\s+/g, " ")
RECURSIVE CollapseWhitespace(_)
CollapseWhitespace(s) ==
    IF s = <<>> THEN <<>>
    ELSE IF Head(s) \in Whitespace
         THEN <<" ">> \o CollapseWhitespace(TrimStart(Tail(s)))
         ELSE <<Head(s)>> \o CollapseWhitespace(Tail(s))

safeText(text) ==
    Trim(CollapseWhitespace(IF text = None THEN <<>> ELSE text[1]))

----------------------------------------------------------------------------
(* scan_locators.ts: extractLocatorsForElement                             *)
(*                                                                         *)
(* The browser is an input.  `element` holds what reading the handle       *)
(* yields: an attribute is None when getAttribute gives null or fails (the *)
(* code turns both into null), tagName and context are None when their     *)
(* evaluate call throws, xpath, cssSelector and depth are None when the    *)
(* evaluate call inside getXPath, getCssSelector or getDomDepth throws.    *)
(* A uniqueness probe is answered by a count or by an exception.           *)

Ok(count) == [ok |-> TRUE, count |-> count]

Throw == [ok |-> FALSE, count |-> 0]

\* split(" ").filter(Boolean)
RECURSIVE SplitOnSpace(_, _)
SplitOnSpace(s, word) ==
    IF s = <<>> THEN (IF word = <<>> THEN <<>> ELSE <<word>>)
    ELSE IF Head(s) = " "
         THEN (IF word = <<>> THEN <<>> ELSE <<word>>) \o SplitOnSpace(Tail(s), <<>>)
         ELSE SplitOnSpace(Tail(s), Append(word, Head(s)))

ClassList(classAttr) ==
    IF Truthy(classAttr) THEN SplitOnSpace(classAttr[1], <<>>) ELSE <<>>

getXPath(el) == IF el.xpath = None THEN <<>> ELSE el.xpath[1]

getCssSelector(el) == IF el.cssSelector = None THEN <<>> ELSE el.cssSelector[1]

getDomDepth(el) == IF el.depth = None THEN 0 ELSE el.depth[1]

\* `[attr="value"]`
AttrSelector(attr, value) == <<"[">> \o attr \o <<"=", "\"">> \o value \o <<"\"", "]">>

nId == <<"i","d">>

nTestId == <<"d","a","t","a","-","t","e","s","t","i","d">>

nAriaLabel == <<"a","r","i","a","-","l","a","b","e","l">>

nRole == <<"r","o","l","e">>

nName == <<"n","a","m","e">>

nTitle == <<"t","i","t","l","e">>

nPlaceholder == <<"p","l","a","c","e","h","o","l","d","e","r">>

\* one candidate: its strategy and value, the selector probed, and what an
\* exception of the probe does: "abort" (not caught around the probe, so
\* the function's catch returns null), "nonunique" or "omit"
Candidate(strategy, value, selector, onThrow) ==
    [strategy |-> strategy, value |-> value, selector |-> selector, onThrow |-> onThrow]

\* the candidates of an element in the order the code probes them
Candidates(el) ==
    (IF Truthy(el.id)
     THEN <<Candidate("id_attr", el.id[1], <<"#">> \o el.id[1], "abort")>> ELSE <<>>)
    \o (IF Truthy(el.testId)
        THEN <<Candidate("testId", el.testId[1], AttrSelector(nTestId, el.testId[1]), "abort")>>
        ELSE <<>>)
    \o (IF Truthy(el.ariaLabel)
        THEN <<Candidate("aria_label", el.ariaLabel[1],
                         AttrSelector(nAriaLabel, el.ariaLabel[1]), "abort")>>
        ELSE <<>>)
    \o (IF Truthy(el.role)
        THEN <<Candidate("role", el.role[1], AttrSelector(nRole, el.role[1]), "nonunique")>>
        ELSE <<>>)
    \o (IF Truthy(el.name)
        THEN <<Candidate("name_attr", el.name[1], AttrSelector(nName, el.name[1]), "abort")>>
        ELSE <<>>)
    \o (IF Truthy(el.title)
        THEN <<Candidate("title", el.title[1], AttrSelector(nTitle, el.title[1]), "abort")>>
        ELSE <<>>)
    \o (IF Truthy(el.placeholder)
        THEN <<Candidate("placeholder", el.placeholder[1],
                         AttrSelector(nPlaceholder, el.placeholder[1]), "abort")>>
        ELSE <<>>)
    \o (IF Truthy(el.text) /\ Len(Trim(el.text[1])) > 0 /\ Len(Trim(el.text[1])) < 50
        THEN <<Candidate("text", safeText(el.text), safeText(el.text), "omit")>>
        ELSE <<>>)
    \o (IF Len(ClassList(el.classAttr)) > 0
        THEN <<Candidate("class", ClassList(el.classAttr)[1],
                         <<".">> \o ClassList(el.classAttr)[1], "abort")>>
        ELSE <<>>)

\* the probes in order: alternatives collected, probes issued, and whether
\* an exception left the function
RECURSIVE RunProbes(_, _, _)
RunProbes(cands, answers, acc) ==
    IF cands = <<>> THEN acc
    ELSE LET c      == Head(cands)
             r      == answers[c.strategy]
             issued == Append(acc.probes, [strategy |-> c.strategy,
                                           selector |-> c.selector, answer |-> r])
         IN  IF r.ok
             THEN RunProbes(Tail(cands), answers,
                      [acc EXCEPT !.probes = issued,
                                  !.alternatives =
                                      Append(@, Alt(c.strategy, c.value, r.count = 1))])
             ELSE IF c.onThrow = "abort"
             THEN [acc EXCEPT !.probes = issued, !.aborted = TRUE]
             ELSE IF c.onThrow = "nonunique"
             THEN RunProbes(Tail(cands), answers,
                      [acc EXCEPT !.probes = issued,
                                  !.alternatives = Append(@, Alt(c.strategy, c.value, FALSE))])
             ELSE RunProbes(Tail(cands), answers, [acc EXCEPT !.probes = issued])

\* the list with id before testId
priorityIdFirst == <<"id_attr", "testId", "aria_label", "role", "name_attr", "text", "class">>

priority == <<"testId", "id_attr", "aria_label", "role", "name_attr", "text", "class">>

\* the find without the test of isUnique
RECURSIVE FindFirstOfStrategy(_, _)
FindFirstOfStrategy(alts, strat) ==
    IF alts = <<>> THEN None
    ELSE IF Head(alts).strategy = strat THEN Some(Head(alts))
    ELSE FindFirstOfStrategy(Tail(alts), strat)

\* alternatives.find(a => a.strategy === strat && a.isUnique)
RECURSIVE FindUnique(_, _)
FindUnique(alts, strat) ==
    IF alts = <<>> THEN None
    ELSE IF Head(alts).strategy = strat /\ Head(alts).isUnique THEN Some(Head(alts))
    ELSE FindUnique(Tail(alts), strat)

\* the loop over priority, from the default [xpath, xpath value, true]
RECURSIVE SelectPrimary(_, _, _)
SelectPrimary(strats, alts, default) ==
    IF strats = <<>> THEN default
    ELSE LET alt == FindUnique(alts, Head(strats))
         IN  IF alt # None THEN alt[1]
             ELSE SelectPrimary(Tail(strats), alts, default)

sA == <<"a">>

sInput == <<"i","n","p","u","t">>

sSelect == <<"s","e","l","e","c","t">>

sTextarea == <<"t","e","x","t","a","r","e","a">>

sForm == <<"f","o","r","m">>

sH2 == <<"h","2">>

sSpan == <<"s","p","a","n">>

sDiv == <<"d","i","v">>

ElementType(tagName) ==
    IF tagName = sButton THEN "button"
    ELSE IF tagName = sA THEN "link"
    ELSE IF tagName = sInput THEN "input"
    ELSE IF tagName = sSelect THEN "select"
    ELSE IF tagName = sTextarea THEN "textarea"
    ELSE IF Len(tagName) = 2 /\ tagName[1] = "h" /\ tagName[2] \in {"1","2","3","4","5","6"}
         THEN "heading"
    ELSE IF tagName = sForm THEN "form"
    ELSE "other"

\* the result (None for null) and the probes issued
extractLocatorsForElement(el, answers) ==
    IF el.tagName = None \/ el.context = None
    THEN [result |-> None, probes |-> <<>>]
    ELSE
    LET classes      == ClassList(el.classAttr)
        xpath        == getXPath(el)
        cssSelector  == getCssSelector(el)
        run          == RunProbes(Candidates(el), answers,
                                  [alternatives |-> <<>>, probes |-> <<>>, aborted |-> FALSE])
        alternatives == run.alternatives
                            \o <<Alt("xpath", xpath, TRUE), Alt("css", cssSelector, FALSE)>>
        primary      == SelectPrimary(priority, alternatives, Alt("xpath", xpath, TRUE))
    IN  IF run.aborted THEN [result |-> None, probes |-> run.probes]
        ELSE [result |->
                 Some([tagName       |-> el.tagName[1],
                       elementType   |-> ElementType(el.tagName[1]),
                       strategy      |-> primary.strategy,
                       value         |-> primary.value,
                       alternatives  |-> alternatives,
                       xpath         |-> xpath,
                       cssSelector   |-> cssSelector,
                       depth         |-> getDomDepth(el),
                       text          |-> OrUndefined(el.text),
                       ariaLabel     |-> OrUndefined(el.ariaLabel),
                       role          |-> OrUndefined(el.role),
                       classes       |-> IF Len(classes) > 0 THEN Some(classes) ELSE None,
                       id            |-> OrUndefined(el.id),
                       name          |-> OrUndefined(el.name),
                       isUnique      |-> primary.isUnique,
                       siblingCount  |-> el.context[1].siblingCount,
                       parentTag     |-> IF el.context[1].parentTag # <<>>
                                         THEN Some(el.context[1].parentTag) ELSE None,
                       parentClasses |-> IF Len(el.context[1].parentClasses) > 0
                                         THEN Some(el.context[1].parentClasses) ELSE None]),
              probes |-> run.probes]

----------------------------------------------------------------------------
(* Elements and browser answers of the extractor runs                      *)

sQ == <<"q">>

sSend == <<"S","e","n","d">>

sEmail == <<"E","m","a","i","l">>

sBtnCssHash == sBtn \o <<" ">> \o sCssHash

\* " Sign \n  in  "
sSpaced == <<" ","S","i","g","n"," ","\n"," "," ","i","n"," "," ">>

sBlank == <<" ", " ", "\n">>

sText49 == Repeat(<<"l","o","r","e","m"," ">>, 8) \o <<"x">>

sText50 == Repeat(<<"l","o","r","e","m"," ">>, 8) \o <<"x","y">>

\* 48 characters once trimmed, 54 with the surrounding whitespace
sText48Padded == <<" "," "," ">> \o Repeat(<<"l","o","r","e","m"," ">>, 7) \o <<"l","o","r","e","m","s">>
                 \o <<" "," "," ">>

sDeepXPath ==
    <<"/","h","t","m","l","/","b","o","d","y","/","d","i","v","[","3","]","/","s","p","a","n","[","2","]">>

sMain == <<"m","a","i","n">>

Context(siblingCount, parentTag, parentClasses) ==
    [siblingCount |-> siblingCount, parentTag |-> parentTag, parentClasses |-> parentClasses]

\* a button four levels deep with every combination of attributes
ButtonElements ==
    { [tagName     |-> Some(sButton),
       id          |-> id,
       name        |-> name,
       testId      |-> testId,
       ariaLabel   |-> aria,
       role        |-> role,
       title       |-> title,
       placeholder |-> ph,
       classAttr   |-> cls,
       text        |-> text,
       xpath       |-> Some(sXPath),
       cssSelector |-> Some(sCss),
       depth       |-> Some(4),
       context     |-> Some(Context(2, sDiv, <<sMain>>))] :
      id \in {None, Some(sNav)}, name \in {None, Some(sQ)},
      testId \in {None, Some(sSubmit)}, aria \in {None, Some(sClose)},
      role \in {None, Some(sButton)}, title \in {None, Some(sSend)},
      ph \in {None, Some(sEmail)}, cls \in {None, Some(sBtnCssHash)},
      text \in {None, Some(sSubmit), Some(sSpaced)} }

Bare(tagName, text, xpath, cssSelector, depth, context) ==
    [tagName     |-> tagName,
     id          |-> None,
     name        |-> None,
     testId      |-> None,
     ariaLabel   |-> None,
     role        |-> None,
     title       |-> None,
     placeholder |-> None,
     classAttr   |-> None,
     text        |-> text,
     xpath       |-> xpath,
     cssSelector |-> cssSelector,
     depth       |-> depth,
     context     |-> context]

\* elements without attributes: other tags and depths, texts at the limits
\* of the text candidate, empty attribute values, failing evaluate calls
OtherElements ==
    { Bare(Some(t), Some(sSubmit), Some(sXPath), Some(sCss), Some(d),
           Some(Context(1, sDiv, <<>>))) :
      t \in {sA, sInput, sSelect, sTextarea, sForm, sH2, sSpan},
      d \in {0, 9, MaxDepth + 1} }
    \cup
    { Bare(Some(sSpan), text, Some(sDeepXPath), Some(sSpan), Some(MaxDepth + 1),
           Some(Context(3, sDiv, <<>>))) :
      text \in {Some(<<>>), Some(sBlank), Some(sText31), Some(sText49), Some(sText50),
                Some(sText51), Some(sText48Padded)} }
    \cup
    { [Bare(Some(sInput), None, Some(sXPath), Some(sCss), Some(4),
            Some(Context(1, <<>>, <<>>)))
         EXCEPT !.id = Some(<<>>), !.classAttr = Some(<<" ", " ">>), !.role = Some(<<>>)],
      Bare(None, Some(sSubmit), Some(sXPath), Some(sCss), Some(4),
           Some(Context(1, sDiv, <<>>))),
      Bare(Some(sButton), Some(sSubmit), Some(sXPath), Some(sCss), Some(4), None),
      Bare(Some(sButton), Some(sSubmit), None, None, None,
           Some(Context(1, sDiv, <<>>))) }

Elements == ButtonElements \cup OtherElements

ProbeStrategies ==
    {"id_attr", "testId", "aria_label", "role", "name_attr", "title",
     "placeholder", "text", "class"}

ProbeAnswers == {Ok(1), Ok(2), Throw}

CandidateStrategies(el) ==
    {Candidates(el)[i].strategy : i \in 1..Len(Candidates(el))}

\* answers of the browser for the candidates of el; a strategy that is not
\* probed has the answer Ok(0), which is never read
AnswersFor(el) ==
    { [st \in ProbeStrategies |-> IF st \in DOMAIN a THEN a[st] ELSE Ok(0)] :
      a \in [CandidateStrategies(el) -> ProbeAnswers] }

InitExtractor ==
    /\ element \in {Some(e) : e \in Elements}
    /\ probes = <<>>
    /\ extracted = None
    /\ locator = None
    /\ score = None
    /\ prevScore = None
    /\ urls = <<>>
    /\ urlIndex = 1
    /\ pages = <<>>
    /\ errors = <<>>
    /\ report = None
    /\ ScanIdle
    /\ RetryIdle
    /\ ConsumerIdle
    /\ CrawlIdle
    /\ SessionIdle

\* one call of extractLocatorsForElement, the browser answering the probes
ExtractLocatorsForElement ==
    /\ extracted = None
    /\ \E answers \in AnswersFor(element[1]) :
          LET r == extractLocatorsForElement(element[1], answers)
          IN  /\ extracted' = Some(r.result)
              /\ probes' = r.probes
    /\ UNCHANGED <<element, scorerVars, orchestrateVars, scanVars, retryVars,
                   consumerVars, crawlVars, sessionVars>>

\* the extracted locator is scored (scorePageScan maps scoreLocator)
ScoreExtracted ==
    /\ extracted # None
    /\ extracted[1] # None
    /\ score = None
    /\ locator' = extracted[1][1]
    /\ score' = Some(scoreLocator(extracted[1][1]))
    /\ UNCHANGED <<prevScore, extractorVars, orchestrateVars, scanVars, retryVars,
                   consumerVars, crawlVars, sessionVars>>

NextExtractor ==
    \/ ExtractLocatorsForElement
    \/ ScoreExtracted

SpecExtractor == InitExtractor /\ [][NextExtractor]_vars

----------------------------------------------------------------------------
(* Properties of the extractor                                             *)

Returned == extracted # None /\ extracted[1] # None

Extracted == extracted[1][1]

SomeProbeUnique ==
    \E i \in 1..Len(probes) : probes[i].answer.ok /\ probes[i].answer.count = 1

\* C10: every ExtractedLocator returned by extractLocatorsForElement has
\* alternatives ending with the xpath fallback flagged unique and the css
\* fallback flagged not unique, its primary strategy and value are those of
\* some alternative, and when no probed candidate is unique the primary is
\* the xpath fallback.
C10_FallbacksAndPrimary ==
    Returned =>
        LET alts == Extracted.alternatives
            n    == Len(alts)
        IN  /\ n >= 2
            /\ alts[n - 1] = Alt("xpath", Extracted.xpath, TRUE)
            /\ alts[n] = Alt("css", Extracted.cssSelector, FALSE)
            /\ \E i \in 1..n : /\ alts[i].strategy = Extracted.strategy
                               /\ alts[i].value = Extracted.value
            /\ ~SomeProbeUnique =>
                  /\ Extracted.strategy = "xpath"
                  /\ Extracted.value = alts[n - 1].value

\* four candidates were probed, none is unique, and the locator returned
\* has the xpath fallback as primary, six alternatives in all
C10_Witness ==
    /\ Returned
    /\ Len(probes) = 4
    /\ ~SomeProbeUnique
    /\ Len(Extracted.alternatives) = 6
    /\ Extracted.strategy = "xpath"
    /\ Extracted.value = sXPath

\* the browser answered the probe of strategy st with a count of one
ProbedUnique(st) ==
    \E i \in 1..Len(probes) :
        /\ probes[i].strategy = st
        /\ probes[i].answer.ok
        /\ probes[i].answer.count = 1

\* the fixed order: testId, id, aria-label, role, name, text, class
DocumentedOrder == <<"testId", "id_attr", "aria_label", "role", "name_attr", "text", "class">>

\* positions of the documented order whose candidate was found unique
UniquePositions == {k \in 1..Len(DocumentedOrder) : ProbedUnique(DocumentedOrder[k])}

\* C11: the primary strategy is the first of testId, id, aria-label, role,
\* name, text, class whose candidate is unique; when none of the seven is
\* unique the primary is the xpath fallback, also when the title or the
\* placeholder candidate is unique; title, placeholder and css are never
\* the primary.
C11_PrimaryByPriority ==
    Returned =>
        /\ Extracted.strategy \notin {"title", "placeholder", "css"}
        /\ IF UniquePositions = {}
           THEN /\ Extracted.strategy = "xpath"
                /\ Extracted.value = Extracted.xpath
           ELSE LET first == CHOOSE k \in UniquePositions : \A m \in UniquePositions : k <= m
                IN  /\ Extracted.strategy = DocumentedOrder[first]
                    /\ \E i \in 1..Len(Extracted.alternatives) :
                          Extracted.alternatives[i] =
                              Alt(DocumentedOrder[first], Extracted.value, TRUE)

\* id and testId are both unique and testId is the primary
C11_Witness ==
    /\ Returned
    /\ ProbedUnique("id_attr")
    /\ ProbedUnique("testId")
    /\ ProbedUnique("title")
    /\ Extracted.strategy = "testId"
    /\ Extracted.value = sSubmit

\* the call has returned, with a locator or with null
Called == extracted # None

\* strategies whose probe threw
ThrownStrategies ==
    {probes[i].strategy : i \in {j \in 1..Len(probes) : ~probes[j].answer.ok}}

ProbedStrategies == {probes[i].strategy : i \in 1..Len(probes)}

\* strategies of the probed candidates listed in alternatives
ListedStrategies(alts) ==
    {alts[i].strategy : i \in 1..Len(alts)} \ {"xpath", "css"}

\* C12: when the uniqueness probe of one candidate throws, the call still
\* returns a locator; that candidate alone is absent from alternatives and
\* every other candidate of the element is probed and listed.
C12_ThrowingProbeDropsOneCandidate ==
    (Called /\ Cardinality(ThrownStrategies) = 1) =>
        /\ Returned
        /\ ProbedStrategies = CandidateStrategies(element[1])
        /\ ListedStrategies(Extracted.alternatives)
              = CandidateStrategies(element[1]) \ ThrownStrategies

\* the probe of the id threw before the other candidates were probed, and
\* the call returned null
C12_IdProbeThrowsReturnsNull ==
    /\ Called
    /\ ThrownStrategies = {"id_attr"}
    /\ ~Returned
    /\ Cardinality(CandidateStrategies(element[1])) > Len(probes)

\* the probe of the role threw and the role candidate is listed, not unique
C12_RoleProbeThrowsKeepsCandidate ==
    /\ Returned
    /\ ThrownStrategies = {"role"}
    /\ \E i \in 1..Len(Extracted.alternatives) :
          Extracted.alternatives[i] = Alt("role", sButton, FALSE)

----------------------------------------------------------------------------
(* scan_locators.ts: the per-element loop and the result of scanPageLocators *)

\* Array.prototype.includes
Includes(seq, x) == \E i \in 1..Len(seq) : seq[i] = x

\* dynamic.forEach(c => { if (!issues.dynamicClasses.includes(c)) push(c) })
RECURSIVE PushMissing(_, _)
PushMissing(list, items) ==
    IF items = <<>> THEN list
    ELSE PushMissing(IF Includes(list, Head(items)) THEN list ELSE Append(list, Head(items)),
                     Tail(items))

\* the accumulators before the loop
ScanStart ==
    [locators       |-> <<>>,
     issues         |-> [duplicateIds    |-> <<>>,
                         missingTestIds  |-> 0,
                         deeplyNested    |-> 0,
                         dynamicClasses  |-> <<>>,
                         noStableLocator |-> 0],
     seenIds        |-> {},
     processedCount |-> 0,
     skippedCount   |-> 0]

\* an id is pushed every time it is seen again
DuplicateIdsEverySighting(acc, e) ==
    IF Truthy(e.id) /\ e.id[1] \in acc.seenIds
    THEN Append(acc.issues.duplicateIds, e.id[1])
    ELSE acc.issues.duplicateIds

\* if (extracted.id) { if (seenIds.has(id)) { if (!duplicateIds.includes(id)) push } }
DuplicateIds(acc, e) ==
    IF Truthy(e.id) /\ e.id[1] \in acc.seenIds
       /\ ~Includes(acc.issues.duplicateIds, e.id[1])
    THEN Append(acc.issues.duplicateIds, e.id[1])
    ELSE acc.issues.duplicateIds

\* the iteration without the count of the skipped element
ProcessElementSkipUncounted(acc, result) ==
    IF result = None THEN acc
    ELSE [acc EXCEPT !.locators = Append(@, result[1]), !.processedCount = @ + 1]

\* one iteration of the loop, `result` being what the race resolved to:
\* None (null: the timer won or the extraction failed) or Some(locator)
ProcessElement(acc, result) ==
    IF result = None
    THEN [acc EXCEPT !.skippedCount = @ + 1]
    ELSE
    LET e == result[1]
        hasGoodLocator ==
            \E i \in 1..Len(e.alternatives) :
                /\ e.alternatives[i].isUnique
                /\ e.alternatives[i].strategy \in {"testId", "id_attr", "aria_label"}
    IN  [acc EXCEPT
           !.locators = Append(@, e),
           !.processedCount = @ + 1,
           !.seenIds = IF Truthy(e.id) THEN @ \cup {e.id[1]} ELSE @,
           !.issues =
              [duplicateIds |-> DuplicateIds(acc, e),
               missingTestIds |->
                  IF ~\E i \in 1..Len(e.alternatives) : e.alternatives[i].strategy = "testId"
                  THEN acc.issues.missingTestIds + 1
                  ELSE acc.issues.missingTestIds,
               deeplyNested |->
                  IF e.depth > 10 THEN acc.issues.deeplyNested + 1
                  ELSE acc.issues.deeplyNested,
               dynamicClasses |->
                  IF e.classes # None
                  THEN PushMissing(acc.issues.dynamicClasses, FilterDynamic(e.classes[1]))
                  ELSE acc.issues.dynamicClasses,
               noStableLocator |->
                  IF ~hasGoodLocator THEN acc.issues.noStableLocator + 1
                  ELSE acc.issues.noStableLocator]]

RECURSIVE ProcessElements(_, _)
ProcessElements(acc, results) ==
    IF results = <<>> THEN acc
    ELSE ProcessElements(ProcessElement(acc, Head(results)), Tail(results))

\* Record<string, number> of the occurrences of each key
CountByKey(keys) ==
    [k \in {keys[i] : i \in 1..Len(keys)} |->
        Cardinality({i \in 1..Len(keys) : keys[i] = k})]

RECURSIVE SumSeq(_)
SumSeq(ns) == IF ns = <<>> THEN 0 ELSE Head(ns) + SumSeq(Tail(ns))

\* a quotient num / den kept exact
Ratio(num, den) == [num |-> num, den |-> den]

\* the PageLocatorScan returned once the loop is over
ScanResult(url, now, acc, totalElements) ==
    LET locators == acc.locators
        depths   == [i \in 1..Len(locators) |-> locators[i].depth]
    IN  [url       |-> url,
         scannedAt |-> now,
         duration  |-> 0,
         locators  |-> locators,
         stats     |-> [totalElements  |-> totalElements,
                        totalLocators  |-> Len(locators),
                        uniqueLocators |->
                            Cardinality({i \in 1..Len(locators) : locators[i].isUnique}),
                        byStrategy     |->
                            CountByKey([i \in 1..Len(locators) |-> locators[i].strategy]),
                        byElementType  |->
                            CountByKey([i \in 1..Len(locators) |-> locators[i].elementType]),
                        averageDepth   |->
                            IF Len(locators) > 0 THEN Ratio(SumSeq(depths), Len(locators))
                            ELSE Ratio(0, 1)],
         issues    |-> acc.issues]

\* scanPageLocators once navigation has succeeded, the race of the i-th
\* element resolving to results[i]
scanPageLocators(url, now, results) ==
    ScanResult(url, now, ProcessElements(ScanStart, results), Len(results))

----------------------------------------------------------------------------
(* utils.ts: median;  score.ts: scorePageScan                              *)

\* Array.prototype.sort with the comparator a - b (ascending)
RECURSIVE InsertAsc(_, _)
InsertAsc(sorted, n) ==
    IF sorted = <<>> THEN <<n>>
    ELSE IF Head(sorted) <= n THEN <<Head(sorted)>> \o InsertAsc(Tail(sorted), n)
    ELSE <<n>> \o sorted

RECURSIVE SortAsc(_)
SortAsc(ns) ==
    IF ns = <<>> THEN <<>>
    ELSE InsertAsc(SortAsc(SubSeq(ns, 1, Len(ns) - 1)), ns[Len(ns)])

\* a half of an integer as a number: n/2, written with denominator 1 when whole
Half(n) == IF n % 2 = 0 THEN Ratio(n \div 2, 1) ELSE Ratio(n, 2)

\* the upper of the two middle elements for an even count
medianUpperMiddle(numbers) ==
    IF Len(numbers) = 0 THEN Ratio(0, 1)
    ELSE LET sorted == SortAsc(numbers)
         IN  Ratio(sorted[Len(sorted) \div 2 + 1], 1)

median(numbers) ==
    IF Len(numbers) = 0 THEN Ratio(0, 1)
    ELSE LET sorted == SortAsc(numbers)
             mid    == Len(sorted) \div 2     \* 0-based index
         IN  IF Len(sorted) % 2 = 0
             THEN Half(sorted[mid] + sorted[mid + 1])
             ELSE Ratio(sorted[mid + 1], 1)

\* Math.round(num / den) for num >= 0, den > 0
RoundRatio(num, den) == (2 * num + den) \div (2 * den)

RECURSIVE MinSeq(_)
MinSeq(ns) == IF Len(ns) = 1 THEN ns[1] ELSE Min(Head(ns), MinSeq(Tail(ns)))

RECURSIVE MaxSeq(_)
MaxSeq(ns) == IF Len(ns) = 1 THEN ns[1] ELSE Max(Head(ns), MaxSeq(Tail(ns)))

\* the histogram without its last bucket
CountGradeExceptF(scored, g) ==
    IF g = "F" THEN 0 ELSE Cardinality({i \in 1..Len(scored) : scored[i].grade = g})

CountGrade(scored, g) == Cardinality({i \in 1..Len(scored) : scored[i].grade = g})

\* Array.prototype.reverse
Reverse(seq) == [i \in 1..Len(seq) |-> seq[Len(seq) + 1 - i]]

\* Array.prototype.slice(-n)
TakeLast(seq, n) == SubSeq(seq, Max(1, Len(seq) - n + 1), Len(seq))

\* Number.prototype.toFixed(1) of num / den, in tenths
ToFixed1(num, den) == RoundRatio(10 * num, den)

\* scan.locators.map(scoreLocator)
ScoreAll(locators) == [i \in 1..Len(locators) |-> scoreLocator(locators[i])]

\* the report scorePageScan builds from the scan and its scored locators
PageReport(scan, scored) ==
    LET scores  == [i \in 1..Len(scored) |-> scored[i].totalScore]
        sortedByScore ==
            LET sorted == SortDesc([i \in 1..Len(scored) |->
                                       [key |-> scored[i].totalScore, item |-> scored[i]]])
            IN  [i \in 1..Len(sorted) |-> sorted[i].item]
        lowScoreCount == Cardinality({i \in 1..Len(scored) : scored[i].totalScore < 60})
        criticalIssues ==
            (IF Len(scan.issues.duplicateIds) > 0
             THEN <<Msg("Duplicate IDs found: ${duplicateIds}", <<>>,
                        <<JoinComma(scan.issues.duplicateIds)>>)>>
             ELSE <<>>)
            \o (IF scan.issues.noStableLocator > 0
                THEN <<Msg("${noStableLocator} elements have no stable locator",
                           <<scan.issues.noStableLocator>>, <<>>)>>
                ELSE <<>>)
            \o (IF lowScoreCount > 0
                THEN <<Msg("${lowScoreCount} locators have failing grades (D/F)",
                           <<lowScoreCount>>, <<>>)>>
                ELSE <<>>)
        improvements ==
            (IF scan.issues.missingTestIds > 0
             THEN <<Msg("Add data-testid to ${missingTestIds} elements for better stability",
                        <<scan.issues.missingTestIds>>, <<>>)>>
             ELSE <<>>)
            \o (IF Len(scan.issues.dynamicClasses) > 0
                THEN <<Msg("Avoid dynamic classes like: ${dynamicClasses}", <<>>,
                           <<JoinComma(Take(scan.issues.dynamicClasses, 3))>>)>>
                ELSE <<>>)
            \o (IF scan.stats.averageDepth.num > 10 * scan.stats.averageDepth.den
                THEN <<Msg("Reduce DOM nesting - average depth is ${averageDepth} levels",
                           <<ToFixed1(scan.stats.averageDepth.num,
                                      scan.stats.averageDepth.den)>>, <<>>)>>
                ELSE <<>>)
    IN  [url       |-> scan.url,
         scannedAt |-> scan.scannedAt,
         duration  |-> scan.duration,
         locators  |-> scan.locators,
         stats     |-> scan.stats,
         issues    |-> scan.issues,
         scored    |-> scored,
         scoreStats |->
            [average |-> IF Len(scores) > 0 THEN RoundRatio(SumSeq(scores), Len(scores)) ELSE 0,
             median  |-> median(scores),
             min     |-> IF Len(scores) > 0 THEN MinSeq(scores) ELSE 0,
             max     |-> IF Len(scores) > 0 THEN MaxSeq(scores) ELSE 0,
             gradeDistribution |-> [g \in {"A", "B", "C", "D", "F"} |-> CountGrade(scored, g)]],
         recommendations |->
            [topLocators    |-> Take(sortedByScore, 10),
             riskyLocators  |-> Reverse(TakeLast(sortedByScore, 10)),
             criticalIssues |-> criticalIssues,
             improvements   |-> improvements]]

\* the scored locators get a rating that depends on their score
scorePageScanRatingByScore(scan) ==
    LET scored == ScoreAll(scan.locators)
    IN  PageReport(scan, [i \in 1..Len(scored) |->
                             [scored[i] EXCEPT !.eloRating = @ + scored[i].totalScore - 50]])

scorePageScan(scan) == PageReport(scan, ScoreAll(scan.locators))

----------------------------------------------------------------------------
(* orchestrate.ts: the loop over the URLs and the site report              *)

MaxUrls == 2

MaxElements == 2

sUrlBase == <<"h","t","t","p","s",":","/","/","a",".","t","e","s","t","/","p">>

DigitChars == <<"1","2","3","4","5","6","7","8","9">>

\* the i-th URL of the crawl report: https://a.test/p1, https://a.test/p2, ...
Url(i) == Append(sUrlBase, DigitChars[i])

\* <button data-testid="submit" class="btn css-a1b2c3">Submit</button>, four
\* levels deep, test id and text unique, class not
ElementA ==
    [Bare(Some(sButton), Some(sSubmit), Some(sXPath), Some(sCss), Some(4),
          Some(Context(2, sDiv, <<sMain>>)))
       EXCEPT !.testId = Some(sSubmit), !.classAttr = Some(sBtnCssHash)]

\* a span without attributes or text, eighteen levels deep
ElementB ==
    Bare(Some(sSpan), Some(<<>>), Some(sDeepXPath), Some(sSpan), Some(18),
         Some(Context(3, sDiv, <<>>)))

AllAnswer(count) == [st \in ProbeStrategies |-> Ok(count)]

\* what the race of one element resolves to: null, or one of two locators
ElementResults ==
    { None,
      extractLocatorsForElement(ElementA, [AllAnswer(1) EXCEPT !["class"] = Ok(2)]).result,
      extractLocatorsForElement(ElementB, AllAnswer(1)).result }

RECURSIVE SeqsUpTo(_, _)
SeqsUpTo(S, n) ==
    IF n = 0 THEN {<<>>}
    ELSE LET shorter == SeqsUpTo(S, n - 1)
         IN  shorter \cup {Append(q, x) : q \in shorter, x \in S}

PageResults == SeqsUpTo(ElementResults, MaxElements)

ScanErrors == {"page.goto: net::ERR_NAME_NOT_RESOLVED"}

AddRatio(a, b) == Ratio(a.num * b.den + b.num * a.den, a.den * b.den)

RECURSIVE SumRatios(_)
SumRatios(rs) == IF rs = <<>> THEN Ratio(0, 1) ELSE AddRatio(Head(rs), SumRatios(Tail(rs)))

\* Object.entries(page.stats.byStrategy) added up over the pages
StrategyDistribution(ps) ==
    [st \in Strategies |->
        SumSeq([k \in 1..Len(ps) |->
                   IF st \in DOMAIN ps[k].stats.byStrategy
                   THEN ps[k].stats.byStrategy[st] ELSE 0])]

\* the SiteLocatorReport built after the loop
SiteReport(us, ps) ==
    LET totalLocators == SumSeq([k \in 1..Len(ps) |-> Len(ps[k].locators)])
        pagesWithDuplicateIds ==
            Cardinality({k \in 1..Len(ps) : Len(ps[k].issues.duplicateIds) > 0})
        pagesWithoutTestIds ==
            Cardinality({k \in 1..Len(ps) : ps[k].issues.missingTestIds > 0})
        totalCriticalIssues ==
            SumSeq([k \in 1..Len(ps) |-> Len(ps[k].recommendations.criticalIssues)])
        depthSum == SumRatios([k \in 1..Len(ps) |-> ps[k].stats.averageDepth])
    IN  [tool        |-> "Pathfinder",
         version     |-> "1.3.0",
         runId       |-> 0,
         seedUrl     |-> us[1],
         scannedUrls |-> us,
         startedAt   |-> 0,
         finishedAt  |-> 0,
         totalDuration |-> 0,
         pages       |-> ps,
         aggregate   |->
            [totalPages    |-> Len(ps),
             totalLocators |-> totalLocators,
             averageLocatorsPerPage |->
                IF Len(ps) > 0 THEN RoundRatio(totalLocators, Len(ps)) ELSE 0,
             averageStabilityScore |->
                IF Len(ps) > 0
                THEN RoundRatio(SumSeq([k \in 1..Len(ps) |-> ps[k].scoreStats.average]), Len(ps))
                ELSE 0,
             strategyDistribution |-> StrategyDistribution(ps),
             overallGradeDistribution |->
                [g \in {"A", "B", "C", "D", "F"} |->
                    SumSeq([k \in 1..Len(ps) |-> ps[k].scoreStats.gradeDistribution[g]])],
             pagesWithDuplicateIds |-> pagesWithDuplicateIds,
             pagesWithoutTestIds   |-> pagesWithoutTestIds,
             totalCriticalIssues   |-> totalCriticalIssues],
         globalRecommendations |->
            [bestPractices |->
                \* avgDepth is NaN without pages, and NaN > 10 is false
                IF Len(ps) > 0 /\ depthSum.num > 10 * Len(ps) * depthSum.den
                THEN <<Msg("Average DOM depth is ${avgDepth} - consider flattening structure",
                           <<ToFixed1(depthSum.num, depthSum.den * Len(ps))>>, <<>>)>>
                ELSE <<>>,
             criticalIssues |->
                IF pagesWithDuplicateIds > 0
                THEN <<Msg("${pagesWithDuplicateIds} pages have duplicate IDs - fix immediately",
                           <<pagesWithDuplicateIds>>, <<>>)>>
                ELSE <<>>,
             quickWins |->
                IF pagesWithoutTestIds = Len(ps)
                THEN <<Msg("No pages use data-testid - add this to all interactive elements",
                           <<>>, <<>>)>>
                ELSE IF 2 * pagesWithoutTestIds > Len(ps)
                THEN <<Msg("${pagesWithoutTestIds}/${pages.length} pages lack data-testid - prioritize adding them",
                           <<pagesWithoutTestIds, Len(ps)>>, <<>>)>>
                ELSE <<>>]]

InitOrchestrate ==
    /\ urls \in {[i \in 1..n |-> Url(i)] : n \in 1..MaxUrls}
    /\ urlIndex = 1
    /\ pages = <<>>
    /\ errors = <<>>
    /\ report = None
    /\ locator = None
    /\ score = None
    /\ prevScore = None
    /\ element = None
    /\ probes = <<>>
    /\ extracted = None
    /\ ScanIdle
    /\ RetryIdle
    /\ ConsumerIdle
    /\ CrawlIdle
    /\ SessionIdle

\* an iteration whose scanPageLocators call returns: the scan is scored and
\* the page report pushed
OrchestratePage ==
    /\ urlIndex <= Len(urls)
    /\ \E results \in PageResults :
          pages' = Append(pages, scorePageScan(scanPageLocators(urls[urlIndex], 0, results)))
    /\ urlIndex' = urlIndex + 1
    /\ UNCHANGED <<urls, errors, report, scorerVars, extractorVars, scanVars, retryVars,
                   consumerVars, crawlVars, sessionVars>>

\* a failure that ends the loop over the URLs
OrchestrateFailureEndsBatch ==
    /\ urlIndex <= Len(urls)
    /\ \E e \in ScanErrors :
          errors' = Append(errors, [url |-> urls[urlIndex], error |-> e])
    /\ urlIndex' = Len(urls) + 1
    /\ UNCHANGED <<urls, pages, report, scorerVars, extractorVars, scanVars, retryVars,
                   consumerVars, crawlVars, sessionVars>>

\* an iteration whose scanPageLocators call throws
OrchestrateFailure ==
    /\ urlIndex <= Len(urls)
    /\ \E e \in ScanErrors :
          errors' = Append(errors, [url |-> urls[urlIndex], error |-> e])
    /\ urlIndex' = urlIndex + 1
    /\ UNCHANGED <<urls, pages, report, scorerVars, extractorVars, scanVars, retryVars,
                   consumerVars, crawlVars, sessionVars>>

\* after the loop: the aggregate statistics and the report
OrchestrateReport ==
    /\ urlIndex > Len(urls)
    /\ report = None
    /\ report' = Some(SiteReport(urls, pages))
    /\ UNCHANGED <<urls, urlIndex, pages, errors, scorerVars, extractorVars, scanVars, retryVars,
                   consumerVars, crawlVars, sessionVars>>

NextOrchestrate ==
    \/ OrchestratePage
    \/ OrchestrateFailure
    \/ OrchestrateReport

SpecOrchestrate == InitOrchestrate /\ [][NextOrchestrate]_vars

----------------------------------------------------------------------------
(* Properties of the page reports and the site report                      *)

\* every LocatorScore a page report holds: scored, topLocators, riskyLocators
LocatorScoresOf(p) ==
    p.scored \o p.recommendations.topLocators \o p.recommendations.riskyLocators

RECURSIVE Flatten(_)
Flatten(seqs) == IF seqs = <<>> THEN <<>> ELSE Head(seqs) \o Flatten(Tail(seqs))

\* every LocatorScore the run has produced, those of the report included
AllLocatorScores ==
    Flatten([k \in 1..Len(pages) |-> LocatorScoresOf(pages[k])])
    \o (IF report = None THEN <<>>
        ELSE Flatten([k \in 1..Len(report[1].pages) |-> LocatorScoresOf(report[1].pages[k])]))

RatingsInitial ==
    LET all == AllLocatorScores
    IN  \A i \in 1..Len(all) : all[i].eloRating = INITIAL_ELO

\* calls on equal locators gave results equal in every field
EqualInputsEqualScores ==
    LET all == AllLocatorScores
    IN  \A i, j \in 1..Len(all) :
            all[i].locator = all[j].locator => all[i] = all[j]

\* the locators of the scan are still what the extractor returned, and each
\* score carries the locator it was computed from
InputsUntouched ==
    \A k \in 1..Len(pages) :
        /\ Len(pages[k].scored) = Len(pages[k].locators)
        /\ \A j \in 1..Len(pages[k].locators) :
              /\ pages[k].locators[j] \in {r[1] : r \in ElementResults \ {None}}
              /\ pages[k].scored[j].locator = pages[k].locators[j]

\* a page report pushed earlier is the same after any later step, and the
\* site report holds the page reports as they were pushed
ScoresKept ==
    /\ Len(pages') >= Len(pages)
    /\ \A k \in 1..Len(pages) : pages'[k] = pages[k]
    /\ report' # None => report'[1].pages = pages

----------------------------------------------------------------------------
(* scan_locators.ts: scanPageLocators, the loop over the collected elements *)
(* once navigation has succeeded                                           *)

MaxScanElements == 3

\* <a id="nav">Submit</a>, nine levels deep, the id found twice on the page
ElementNavLink ==
    [Bare(Some(sA), Some(sSubmit), Some(sXPath), Some(sCss), Some(9),
          Some(Context(2, sDiv, <<>>)))
       EXCEPT !.id = Some(sNav)]

\* <button id="nav" class="btn css-a1b2c3">, the same id on another element
ElementNavButton ==
    [Bare(Some(sButton), Some(<<>>), Some(sXPath), Some(sCss), Some(4),
          Some(Context(2, sDiv, <<>>)))
       EXCEPT !.id = Some(sNav), !.classAttr = Some(sBtnCssHash)]

\* <input id="q" name="q">, its id found once
ElementQ ==
    [Bare(Some(sInput), None, Some(sXPath), Some(sCss), Some(11),
          Some(Context(1, sForm, <<>>)))
       EXCEPT !.id = Some(sQ), !.name = Some(sQ)]

\* what the extraction of one element resolves to when it runs to its end:
\* null (an evaluate call or a probe threw) or a locator
ScanElementResults ==
    { None,
      extractLocatorsForElement(ElementA, [AllAnswer(1) EXCEPT !["class"] = Ok(2)]).result,
      extractLocatorsForElement(ElementNavLink, [AllAnswer(1) EXCEPT !["id_attr"] = Ok(2)]).result,
      extractLocatorsForElement(ElementNavButton, AllAnswer(2)).result,
      extractLocatorsForElement(ElementQ, AllAnswer(1)).result }

InitScan ==
    /\ scanElements \in SeqsUpTo(ScanElementResults, MaxScanElements)
    /\ scanIndex = 1
    /\ scanPhase = "loop"
    /\ scanAcc = ScanStart
    /\ scanOutcomes = <<>>
    /\ inFlight = {}
    /\ scanResult = None
    /\ urls = <<>>
    /\ urlIndex = 1
    /\ pages = <<>>
    /\ errors = <<>>
    /\ report = None
    /\ locator = None
    /\ score = None
    /\ prevScore = None
    /\ element = None
    /\ probes = <<>>
    /\ extracted = None
    /\ RetryIdle
    /\ ConsumerIdle
    /\ CrawlIdle
    /\ SessionIdle

\* the loop takes the next element: extractLocatorsForElement is called and
\* raced against the 5 second timer
ScanStartExtraction ==
    /\ scanPhase = "loop"
    /\ scanIndex <= Len(scanElements)
    /\ scanPhase' = "race"
    /\ inFlight' = inFlight \cup {scanIndex}
    /\ UNCHANGED <<scanElements, scanIndex, scanAcc, scanOutcomes, scanResult,
                   orchestrateVars, scorerVars, extractorVars, retryVars,
                   consumerVars, crawlVars, sessionVars>>

\* the extraction settles before the timer: the rest of the iteration runs
\* on its result
ScanExtractionSettles ==
    /\ scanPhase = "race"
    /\ scanIndex \in inFlight
    /\ inFlight' = inFlight \ {scanIndex}
    /\ scanAcc' = ProcessElement(scanAcc, scanElements[scanIndex])
    /\ scanOutcomes' = Append(scanOutcomes, scanElements[scanIndex])
    /\ scanIndex' = scanIndex + 1
    /\ scanPhase' = "loop"
    /\ UNCHANGED <<scanElements, scanResult,
                   orchestrateVars, scorerVars, extractorVars, retryVars,
                   consumerVars, crawlVars, sessionVars>>

\* the timer resolves the race with null; the extraction is not cancelled
ScanTimerFires ==
    /\ scanPhase = "race"
    /\ scanIndex \in inFlight
    /\ scanAcc' = ProcessElement(scanAcc, None)
    /\ scanOutcomes' = Append(scanOutcomes, None)
    /\ scanIndex' = scanIndex + 1
    /\ scanPhase' = "loop"
    /\ UNCHANGED <<scanElements, inFlight, scanResult,
                   orchestrateVars, scorerVars, extractorVars, retryVars,
                   consumerVars, crawlVars, sessionVars>>

\* the accumulators after an abandoned extraction has settled, were its
\* result run through the rest of its iteration
LateSettlementProcessed(acc, result) == ProcessElement(acc, result)

\* the accumulators after an abandoned extraction has settled: the race was
\* resolved by the timer, so nothing reads the result
LateSettlement(acc, result) == acc

\* an extraction the loop no longer awaits settles
ScanAbandonedSettles ==
    /\ \E i \in inFlight :
          /\ i < scanIndex
          /\ inFlight' = inFlight \ {i}
          /\ scanAcc' = LateSettlement(scanAcc, scanElements[i])
    /\ UNCHANGED <<scanElements, scanIndex, scanPhase, scanOutcomes, scanResult,
                   orchestrateVars, scorerVars, extractorVars, retryVars,
                   consumerVars, crawlVars, sessionVars>>

\* after the loop: the statistics are computed, the scan is returned and the
\* browser is closed, which ends what was still running against it
ScanReturn ==
    /\ scanPhase = "loop"
    /\ scanIndex > Len(scanElements)
    /\ scanResult' = Some(ScanResult(Url(1), 0, scanAcc, Len(scanElements)))
    /\ scanPhase' = "done"
    /\ inFlight' = {}
    /\ UNCHANGED <<scanElements, scanIndex, scanAcc, scanOutcomes,
                   orchestrateVars, scorerVars, extractorVars, retryVars,
                   consumerVars, crawlVars, sessionVars>>

NextScan ==
    \/ ScanStartExtraction
    \/ ScanExtractionSettles
    \/ ScanTimerFires
    \/ ScanAbandonedSettles
    \/ ScanReturn

SpecScan == InitScan /\ [][NextScan]_vars

----------------------------------------------------------------------------
(* Properties of the scan loop                                             *)

\* the locators among the outcomes, in order
RECURSIVE Unwrap(_)
Unwrap(outcomes) ==
    IF outcomes = <<>> THEN <<>>
    ELSE Head(outcomes) \o Unwrap(Tail(outcomes))

ScanDone == scanPhase = "done"

\* C13: whatever mix of elements succeeds, fails or runs out of time, the
\* loop visits every collected element and accounts for each exactly once,
\* as a locator appended in collection order or in the skip counter, so that
\* locators.length + skippedCount = N = stats.totalElements; no element
\* stops the scan.
C13_EveryElementAccounted ==
    /\ Len(scanOutcomes) = scanIndex - 1
    /\ scanIndex <= Len(scanElements) + 1
    /\ \A i \in 1..Len(scanOutcomes) : scanOutcomes[i] \in {None, scanElements[i]}
    /\ scanAcc.locators = Unwrap(scanOutcomes)
    /\ Len(scanAcc.locators) + scanAcc.skippedCount = Len(scanOutcomes)
    /\ scanAcc.processedCount = Len(scanAcc.locators)
    /\ ~ScanDone =>
          ENABLED (ScanStartExtraction \/ ScanExtractionSettles \/ ScanTimerFires \/ ScanReturn)
    /\ ScanDone =>
          /\ Len(scanOutcomes) = Len(scanElements)
          /\ scanResult[1].locators = scanAcc.locators
          /\ scanResult[1].stats.totalElements = Len(scanElements)
          /\ scanResult[1].stats.totalLocators + scanAcc.skippedCount = Len(scanElements)

\* a scan of three elements has returned: the first failed, the second ran
\* out of time, the third gave the only locator
C13_Witness ==
    /\ ScanDone
    /\ Len(scanElements) = 3
    /\ scanElements[1] = None
    /\ scanElements[2] # None
    /\ scanOutcomes[2] = None
    /\ scanOutcomes[3] # None
    /\ Len(scanResult[1].locators) = 1
    /\ scanAcc.skippedCount = 2

\* C14: the elements of a page are processed strictly one after the other:
\* at every moment of the scan at most one extraction is running against the
\* browser, an extraction given up by the 5 second timer included.
C14_AtMostOneExtractionInFlight == Cardinality(inFlight) <= 1

\* the timer gave up the first element, whose extraction is still running
\* while the extraction of the second has been started
C14_AbandonedExtractionOverlaps ==
    /\ scanPhase = "race"
    /\ scanIndex = 2
    /\ scanOutcomes = <<None>>
    /\ inFlight = {1, 2}

----------------------------------------------------------------------------
(* utils.ts: retry, as scanPageLocators uses it for page.goto              *)

MaxAttempts == 3

\* the defaults of retry, which the navigation uses
DefaultMaxAttempts == 3

DefaultDelayMs == 1000

RetryDelays == {250, 500, DefaultDelayMs}

\* what fn resolves to, and the errors it rejects with
FnValues == {"response", "cached"}

FnErrors == {"Timeout 30000ms exceeded", "net::ERR_CONNECTION_REFUSED"}

\* the same wait after every failure
BackoffConstant(delay, k) == delay

\* sleep(delayMs * attempt)
Backoff(delay, k) == delay * k

InitRetry ==
    /\ maxAttempts \in 1..MaxAttempts
    /\ delayMs \in RetryDelays
    /\ attempt = 1
    /\ lastError = None
    /\ fnCalls = <<>>
    /\ waits = <<>>
    /\ retryResult = None
    /\ urls = <<>>
    /\ urlIndex = 1
    /\ pages = <<>>
    /\ errors = <<>>
    /\ report = None
    /\ locator = None
    /\ score = None
    /\ prevScore = None
    /\ element = None
    /\ probes = <<>>
    /\ extracted = None
    /\ ScanIdle
    /\ ConsumerIdle
    /\ CrawlIdle
    /\ SessionIdle

\* an iteration whose call of fn resolves: its value is returned
RetryCallReturns ==
    /\ retryResult = None
    /\ attempt <= maxAttempts
    /\ \E v \in FnValues :
          retryResult' = Some([kind |-> "return", value |-> v])
    /\ fnCalls' = Append(fnCalls, "ok")
    /\ UNCHANGED <<maxAttempts, delayMs, attempt, lastError, waits,
                   orchestrateVars, scorerVars, extractorVars, scanVars,
                   consumerVars, crawlVars, sessionVars>>

\* an iteration whose call of fn rejects: the error is kept and, unless this
\* was the last attempt, the loop sleeps
RetryCallThrows ==
    /\ retryResult = None
    /\ attempt <= maxAttempts
    /\ \E e \in FnErrors :
          /\ fnCalls' = Append(fnCalls, e)
          /\ lastError' = Some(e)
    /\ waits' = IF attempt < maxAttempts THEN Append(waits, Backoff(delayMs, attempt))
                ELSE waits
    /\ attempt' = attempt + 1
    /\ UNCHANGED <<maxAttempts, delayMs, retryResult,
                   orchestrateVars, scorerVars, extractorVars, scanVars,
                   consumerVars, crawlVars, sessionVars>>

\* after the loop: throw lastError
RetryThrows ==
    /\ retryResult = None
    /\ attempt > maxAttempts
    /\ retryResult' = Some([kind |-> "throw", value |-> lastError])
    /\ UNCHANGED <<maxAttempts, delayMs, attempt, lastError, fnCalls, waits,
                   orchestrateVars, scorerVars, extractorVars, scanVars,
                   consumerVars, crawlVars, sessionVars>>

NextRetry ==
    \/ RetryCallReturns
    \/ RetryCallThrows
    \/ RetryThrows

SpecRetry == InitRetry /\ [][NextRetry]_vars

----------------------------------------------------------------------------
(* Properties of retry                                                     *)

FailedCalls == {i \in 1..Len(fnCalls) : fnCalls[i] # "ok"}

----------------------------------------------------------------------------
(* Properties of the batch                                                 *)

\* the sum of the counts f[x] for x in S
RECURSIVE SumOver(_, _)
SumOver(f, S) ==
    IF S = {} THEN 0
    ELSE LET x == CHOOSE y \in S : TRUE
         IN  f[x] + SumOver(f, S \ {x})

\* the URLs of the entries of a list of page reports or of failures
UrlsOf(entries) == [k \in 1..Len(entries) |-> entries[k].url]

\* position of a URL in the batch (the URLs are deduplicated)
UrlPosition(u) == CHOOSE k \in 1..Len(urls) : urls[k] = u

\* the URLs of the entries are URLs visited so far, in input order
InInputOrder(entries) ==
    /\ \A k \in 1..Len(entries) :
          \E i \in 1..(urlIndex - 1) : urls[i] = entries[k].url
    /\ \A k \in 1..(Len(entries) - 1) :
          UrlPosition(entries[k].url) < UrlPosition(entries[k + 1].url)

\* C16: every URL of the batch has exactly one outcome, its page report in
\* pages or a failure entry in errors, so pages.length + errors.length =
\* urls.length; a failed page adds nothing to the aggregate totals, and the
\* URLs after a failed one are still scanned, in input order.
C16_OneOutcomePerUrl ==
    /\ urlIndex <= Len(urls) + 1
    /\ Len(pages) + Len(errors) = urlIndex - 1
    /\ InInputOrder(pages)
    /\ InInputOrder(errors)
    /\ \A i \in 1..(urlIndex - 1) :
          (\E k \in 1..Len(pages) : pages[k].url = urls[i])
              # (\E k \in 1..Len(errors) : errors[k].url = urls[i])
    /\ report # None =>
          /\ Len(pages) + Len(errors) = Len(urls)
          /\ report[1].scannedUrls = urls
          /\ UrlsOf(report[1].pages) = UrlsOf(pages)
          /\ report[1].aggregate.totalPages = Len(pages)
          /\ report[1].aggregate.totalLocators
                = SumSeq([k \in 1..Len(pages) |-> pages[k].stats.totalLocators])
          /\ SumOver(report[1].aggregate.strategyDistribution, Strategies)
                = report[1].aggregate.totalLocators
          /\ report[1].aggregate.pagesWithoutTestIds <= Len(pages)
          /\ report[1].aggregate.pagesWithDuplicateIds <= Len(pages)

\* the first URL failed, the second was scanned and is the only page of the
\* report
C16_Witness ==
    /\ report # None
    /\ Len(urls) = 2
    /\ UrlsOf(errors) = <<urls[1]>>
    /\ UrlsOf(pages) = <<urls[2]>>
    /\ report[1].aggregate.totalPages = 1
    /\ report[1].aggregate.totalLocators = 2

Grades == {"A", "B", "C", "D", "F"}

\* C17: in every page report the five counts of the grade histogram add up
\* to the number of scored locators, which is the page's locator count
\* (scored.length = locators.length = stats.totalLocators), and in the site
\* report overallGradeDistribution adds up to aggregate.totalLocators.
C17_GradeHistogramSums ==
    /\ \A k \in 1..Len(pages) :
          /\ SumOver(pages[k].scoreStats.gradeDistribution, Grades) = Len(pages[k].scored)
          /\ DOMAIN pages[k].scoreStats.gradeDistribution = Grades
          /\ Len(pages[k].scored) = Len(pages[k].locators)
          /\ Len(pages[k].locators) = pages[k].stats.totalLocators
    /\ report # None =>
          /\ DOMAIN report[1].aggregate.overallGradeDistribution = Grades
          /\ SumOver(report[1].aggregate.overallGradeDistribution, Grades)
                = report[1].aggregate.totalLocators
          /\ report[1].aggregate.totalLocators
                = SumSeq([k \in 1..Len(pages) |-> Len(pages[k].scored)])

\* a report of two pages with four locators in all, some graded F and some
\* graded better than F
C17_Witness ==
    /\ report # None
    /\ Len(pages) = 2
    /\ report[1].aggregate.totalLocators = 4
    /\ report[1].aggregate.overallGradeDistribution["F"] = 2
    /\ pages[1].scoreStats.gradeDistribution["F"] = 1
    /\ pages[2].scoreStats.gradeDistribution["F"] = 1

----------------------------------------------------------------------------
(* score.ts: scorePageScan on scans of up to a dozen locators              *)

MaxPageLocators == 12

MaxFreeLocators == 3

\* the button of ElementA found at another place of the document
ElementA2 == [ElementA EXCEPT !.xpath = Some(sDeepXPath)]

\* the span of ElementB with another parent
ElementB2 == [ElementB EXCEPT !.context = Some(Context(5, sForm, <<>>))]

\* five locators with the totals 98, 98, 67, 44 and 44
PageLocators ==
    << extractLocatorsForElement(ElementA, [AllAnswer(1) EXCEPT !["class"] = Ok(2)]).result,
       extractLocatorsForElement(ElementB, AllAnswer(1)).result,
       extractLocatorsForElement(ElementNavLink, [AllAnswer(1) EXCEPT !["id_attr"] = Ok(2)]).result,
       extractLocatorsForElement(ElementB2, AllAnswer(1)).result,
       extractLocatorsForElement(ElementA2, [AllAnswer(1) EXCEPT !["class"] = Ok(2)]).result >>

\* n locators taken from PageLocators, starting at `first`, `step` further
\* each time
Cycle(first, step, n) ==
    [i \in 1..n |-> PageLocators[((first + step * (i - 1)) % Len(PageLocators)) + 1]]

\* the extraction results of the elements of a page: every short sequence,
\* and longer ones that cycle through PageLocators
PageElementResults ==
    SeqsUpTo({PageLocators[i] : i \in 1..Len(PageLocators)}, MaxFreeLocators)
    \cup {Cycle(first, step, n) : first \in 0..(Len(PageLocators) - 1),
                                  step \in 0..(Len(PageLocators) - 1),
                                  n \in 0..MaxPageLocators}

InitPage ==
    /\ scanResult \in {Some(scanPageLocators(Url(1), 0, results)) : results \in PageElementResults}
    /\ scanElements = <<>>
    /\ scanIndex = 1
    /\ scanPhase = "done"
    /\ scanAcc = None
    /\ scanOutcomes = <<>>
    /\ inFlight = {}
    /\ urls = <<Url(1)>>
    /\ urlIndex = 1
    /\ pages = <<>>
    /\ errors = <<>>
    /\ report = None
    /\ locator = None
    /\ score = None
    /\ prevScore = None
    /\ element = None
    /\ probes = <<>>
    /\ extracted = None
    /\ RetryIdle
    /\ ConsumerIdle
    /\ CrawlIdle
    /\ SessionIdle

\* const scored = scorePageScan(scan); pages.push(scored)
ScorePageScan ==
    /\ scanResult # None
    /\ pages = <<>>
    /\ pages' = <<scorePageScan(scanResult[1])>>
    /\ UNCHANGED <<urls, urlIndex, errors, report,
                   scorerVars, extractorVars, scanVars, retryVars,
                   consumerVars, crawlVars, sessionVars>>

NextPage == ScorePageScan

SpecPage == InitPage /\ [][NextPage]_vars

----------------------------------------------------------------------------
(* Properties of the page statistics                                       *)

PageScored == pages # <<>>

\* the totals of the scored locators of the page, in encounter order
Totals == [i \in 1..Len(pages[1].scored) |-> pages[1].scored[i].totalScore]

\* the k-th smallest of the numbers
KthSmallest(numbers, k) ==
    CHOOSE v \in {numbers[i] : i \in 1..Len(numbers)} :
        /\ Cardinality({i \in 1..Len(numbers) : numbers[i] < v}) < k
        /\ Cardinality({i \in 1..Len(numbers) : numbers[i] <= v}) >= k

\* C18: average is the mean of the totals rounded to the nearest integer,
\* median the middle total for an odd count and the mean of the two middle
\* totals for an even count, min and max the smallest and the largest total,
\* with min <= median <= max and min <= average <= max; for a page without
\* locators all four are 0.
C18_PageScoreStats ==
    PageScored =>
        LET st  == pages[1].scoreStats
            t   == Totals
            n   == Len(t)
            sum == SumSeq(t)
        IN  /\ n = Len(scanResult[1].locators)
            /\ n = 0 =>
                  /\ st.average = 0
                  /\ st.median.num = 0
                  /\ st.min = 0
                  /\ st.max = 0
            /\ n > 0 =>
                  /\ 2 * n * st.average <= 2 * sum + n
                  /\ 2 * sum + n < 2 * n * (st.average + 1)
                  /\ IF n % 2 = 1
                     THEN st.median.num = st.median.den * KthSmallest(t, (n + 1) \div 2)
                     ELSE 2 * st.median.num
                            = st.median.den
                                 * (KthSmallest(t, n \div 2) + KthSmallest(t, n \div 2 + 1))
                  /\ \E i \in 1..n : t[i] = st.min
                  /\ \E i \in 1..n : t[i] = st.max
                  /\ \A i \in 1..n : st.min <= t[i] /\ t[i] <= st.max
                  /\ st.min * st.median.den <= st.median.num
                  /\ st.median.num <= st.max * st.median.den
                  /\ st.min <= st.average
                  /\ st.average <= st.max

\* a page of four locators with the totals 98, 44, 67, 44 in some order: the
\* mean 63.25 is reported as 63 and the median is 55.5
C18_Witness ==
    /\ PageScored
    /\ Len(Totals) = 4
    /\ SumSeq(Totals) = 253
    /\ pages[1].scoreStats.average = 63
    /\ pages[1].scoreStats.median = Ratio(111, 2)
    /\ pages[1].scoreStats.min = 44
    /\ pages[1].scoreStats.max = 98

----------------------------------------------------------------------------
(* Properties of the ranking                                               *)

Scored == pages[1].scored

\* the indices of `scored` ordered by ranksBefore, which is a strict total
\* order of them
RankedBy(ranksBefore(_, _)) ==
    [r \in 1..Len(Scored) |->
        CHOOSE i \in 1..Len(Scored) :
            Cardinality({j \in 1..Len(Scored) : ranksBefore(j, i)}) = r - 1]

\* higher total first, equal totals in encounter order
HigherFirst(j, i) ==
    \/ Scored[j].totalScore > Scored[i].totalScore
    \/ Scored[j].totalScore = Scored[i].totalScore /\ j < i

\* lower total first, equal totals in encounter order
LowerFirst(j, i) ==
    \/ Scored[j].totalScore < Scored[i].totalScore
    \/ Scored[j].totalScore = Scored[i].totalScore /\ j < i

\* lower total first, equal totals in reverse encounter order
LowerFirstLatestFirst(j, i) ==
    \/ Scored[j].totalScore < Scored[i].totalScore
    \/ Scored[j].totalScore = Scored[i].totalScore /\ j > i

\* the first min(10, n) locators of a ranking
FirstTen(ranking) == [r \in 1..Min(10, Len(ranking)) |-> Scored[ranking[r]]]

TopAsDocumented == pages[1].recommendations.topLocators = FirstTen(RankedBy(HigherFirst))

\* C19: topLocators holds the min(10, n) highest-scoring locators in
\* non-increasing order of totalScore and riskyLocators the min(10, n)
\* lowest-scoring ones in non-decreasing order, and in both lists locators
\* of equal totalScore appear in their encounter order on the page.
C19_RankingKeepsEncounterOrder ==
    PageScored =>
        /\ TopAsDocumented
        /\ pages[1].recommendations.riskyLocators = FirstTen(RankedBy(LowerFirst))

\* what the code does: riskyLocators lists equal totals latest first
C19_RiskyTiesLatestFirst ==
    PageScored =>
        /\ TopAsDocumented
        /\ pages[1].recommendations.riskyLocators = FirstTen(RankedBy(LowerFirstLatestFirst))

\* a page of two different spans that both score 44: riskyLocators names
\* the second before the first
C19_TiesReversedInRisky ==
    /\ PageScored
    /\ Len(Scored) = 2
    /\ Scored[1].totalScore = 44
    /\ Scored[2].totalScore = 44
    /\ Scored[1] # Scored[2]
    /\ pages[1].recommendations.topLocators = <<Scored[1], Scored[2]>>
    /\ pages[1].recommendations.riskyLocators = <<Scored[2], Scored[1]>>

----------------------------------------------------------------------------
(* Properties of the duplicate ids                                         *)

\* the ids the extracted elements carry
ExtractedIds ==
    {scanAcc.locators[i].id[1] :
        i \in {j \in 1..Len(scanAcc.locators) : scanAcc.locators[j].id # None}}

\* the number of extracted elements that carry the id
IdCount(id) ==
    Cardinality({i \in 1..Len(scanAcc.locators) : scanAcc.locators[i].id = Some(id)})

\* the number of entries of the list equal to x
Occurrences(list, x) == Cardinality({i \in 1..Len(list) : list[i] = x})

\* C20: after any sequence of elements, issues.duplicateIds holds an id if
\* and only if two or more extracted elements carry it, and holds it once
\* however many elements share it.
C20_DuplicateIdsOnce ==
    LET dups == scanAcc.issues.duplicateIds
    IN  /\ \A i \in 1..Len(dups) : dups[i] \in ExtractedIds
        /\ \A id \in ExtractedIds :
              Occurrences(dups, id) = (IF IdCount(id) >= 2 THEN 1 ELSE 0)
        /\ ScanDone => scanResult[1].issues.duplicateIds = dups

\* three elements share the id "nav": one entry "nav" in the scan returned
C20_Witness ==
    /\ ScanDone
    /\ Len(scanAcc.locators) = 3
    /\ IdCount(sNav) = 3
    /\ scanAcc.locators[1] # scanAcc.locators[2]
    /\ scanResult[1].issues.duplicateIds = <<sNav>>

----------------------------------------------------------------------------
(* Properties of the warnings                                              *)

\* the LocatorScore carries the warning with this text
Warns(o, text) == \E i \in 1..Len(o.warnings) : o.warnings[i].text = text

WarningsMatch(o) ==
    o # None =>
        LET r == o[1]
        IN  /\ Warns(r, WarnNoUnique) <=> (r.uniquenessScore = 20)
            /\ Warns(r, WarnBrittle) <=> (r.locator.strategy \in {"xpath", "css"})
            /\ Warns(r, WarnDeep) <=> (r.locator.depth > 15)
            /\ Warns(r, WarnDeep) <=> (r.depthScore = 20)
            /\ Warns(r, WarnLowScore) <=> (r.totalScore < 60)
            /\ Warns(r, WarnLowScore) <=> (r.grade = "F")

\* C21: the CRITICAL no-unique-locator warning is present iff
\* uniquenessScore = 20, the brittle-locator warning iff the primary is
\* xpath or css, the deep-nesting warning iff depth > 15, that is iff
\* depthScore = 20, and the low-score warning iff totalScore < 60, that is
\* iff the grade is F.
C21_WarningsMatchThresholds == WarningsMatch(score) /\ WarningsMatch(prevScore)

\* depth 15 without and depth 16 with the deep-nesting warning, on a css
\* primary without any unique candidate
C21_Witness ==
    /\ Both
    /\ First.locator.depth = 15
    /\ Second.locator.depth = 16
    /\ ~Warns(First, WarnDeep)
    /\ Warns(Second, WarnDeep)
    /\ Warns(Second, WarnNoUnique)
    /\ Warns(Second, WarnBrittle)
    /\ Warns(Second, WarnLowScore)

----------------------------------------------------------------------------
(* The consumers of a site report: report.ts, summary.ts, training_data.ts *)

\* Array.prototype.sort with a comparator a.key - b.key (stable, ascending):
\* p goes behind every element whose key is <= its own
RECURSIVE InsertAscByKey(_, _)
InsertAscByKey(sorted, p) ==
    IF sorted = <<>> THEN <<p>>
    ELSE IF Head(sorted).key <= p.key
         THEN <<Head(sorted)>> \o InsertAscByKey(Tail(sorted), p)
         ELSE <<p>> \o sorted

RECURSIVE SortAscByKey(_)
SortAscByKey(pairs) ==
    IF pairs = <<>> THEN <<>>
    ELSE InsertAscByKey(SortAscByKey(SubSeq(pairs, 1, Len(pairs) - 1)), pairs[Len(pairs)])

\* report.pages.sort((a, b) => b.scoreStats.average - a.scoreStats.average)
SortPagesByAverage(ps) ==
    LET sorted == SortDesc([k \in 1..Len(ps) |->
                               [key |-> ps[k].scoreStats.average, item |-> ps[k]]])
    IN  [k \in 1..Len(sorted) |-> sorted[k].item]

GradeOrder == <<"A", "B", "C", "D", "F">>

\* the text generateMarkdownReport returns, given the pages in the order the
\* sort has left them in
MarkdownReport(r, sortedPages) ==
    [kind          |-> "report",
     seedUrl       |-> r.seedUrl,
     finishedAt    |-> r.finishedAt,
     totalPages    |-> r.aggregate.totalPages,
     totalLocators |-> r.aggregate.totalLocators,
     averageScore  |-> r.aggregate.averageStabilityScore,
     grades        |-> [i \in 1..Len(GradeOrder) |->
                          <<GradeOrder[i], r.aggregate.overallGradeDistribution[GradeOrder[i]]>>],
     topPages      |-> LET top == Take(sortedPages, 5)
                       IN  [k \in 1..Len(top) |->
                              [index |-> k, url |-> top[k].url,
                               average |-> top[k].scoreStats.average]]]

\* generateMarkdownReport: Array.prototype.sort sorts report.pages itself
generateMarkdownReport(r) ==
    LET sortedPages == SortPagesByAverage(r.pages)
    IN  [report |-> [r EXCEPT !.pages = sortedPages],
         text   |-> MarkdownReport(r, sortedPages)]

scoreToGrade(s) ==
    IF s >= 90 THEN "A"
    ELSE IF s >= 80 THEN "B"
    ELSE IF s >= 70 THEN "C"
    ELSE IF s >= 60 THEN "D"
    ELSE "F"

analyzePage(page) ==
    [url      |-> page.url,
     locators |-> Len(page.locators),
     avgScore |-> page.scoreStats.average,
     grade    |-> scoreToGrade(page.scoreStats.average),
     gradeDistribution |-> page.scoreStats.gradeDistribution,
     topIssues |->
        (IF Len(page.issues.duplicateIds) > 0
         THEN <<Msg("Duplicate IDs: ${ids}", <<>>,
                    <<JoinComma(Take(page.issues.duplicateIds, 3))>>)>> ELSE <<>>)
        \o (IF page.issues.noStableLocator > 0
            THEN <<Msg("${n} elements lack stable locators",
                       <<page.issues.noStableLocator>>, <<>>)>> ELSE <<>>)
        \o (IF page.issues.deeplyNested > 0
            THEN <<Msg("${n} elements deeply nested (>10 levels)",
                       <<page.issues.deeplyNested>>, <<>>)>> ELSE <<>>)
        \o (IF Len(page.issues.dynamicClasses) > 0
            THEN <<Msg("Dynamic classes detected: ${classes}", <<>>,
                       <<JoinComma(Take(page.issues.dynamicClasses, 3))>>)>> ELSE <<>>),
     recommendations |->
        Take(page.recommendations.criticalIssues, 3)
        \o Take(page.recommendations.improvements, 2)]

\* Math.round((n / total) * 100); NaN (None) when total is 0
RoundPercent(n, total) == IF total = 0 THEN None ELSE Some(RoundRatio(100 * n, total))

\* the text generateMarkdown returns: the figures of the executive summary
\* and the two page lists
generateMarkdown(r) ==
    LET grades == r.aggregate.overallGradeDistribution
        total  == grades["A"] + grades["B"] + grades["C"] + grades["D"] + grades["F"]
        summaries == [k \in 1..Len(r.pages) |-> analyzePage(r.pages[k])]
        sorted == SortAscByKey([k \in 1..Len(summaries) |->
                                   [key |-> summaries[k].avgScore, item |-> summaries[k]]])
        sortedPages == [k \in 1..Len(sorted) |-> sorted[k].item]
    IN  [kind          |-> "summary",
         version       |-> r.version,
         totalPages    |-> r.aggregate.totalPages,
         totalLocators |-> r.aggregate.totalLocators,
         averageScore  |-> r.aggregate.averageStabilityScore,
         overallGrade  |-> scoreToGrade(r.aggregate.averageStabilityScore),
         goodPercent   |-> RoundPercent(grades["A"] + grades["B"], total),
         badPercent    |-> RoundPercent(grades["D"] + grades["F"], total),
         criticalIssues |-> r.globalRecommendations.criticalIssues,
         quickWins     |-> r.globalRecommendations.quickWins,
         bestPractices |-> r.globalRecommendations.bestPractices,
         needingAttention |-> Take(sortedPages, 3),
         topPerforming |-> IF Len(sortedPages) > 3
                           THEN Reverse(TakeLast(sortedPages, 3)) ELSE <<>>]

\* value.replace(/"/g, '""') between two double quotes
RECURSIVE DoubleQuotes(_)
DoubleQuotes(chars) ==
    IF chars = <<>> THEN <<>>
    ELSE (IF Head(chars) = "\"" THEN <<"\"", "\"">> ELSE <<Head(chars)>>)
         \o DoubleQuotes(Tail(chars))

\* the rows exportTrainingData writes, the header first
exportTrainingData(r) ==
    [kind |-> "csv",
     rows |-> <<<<"url", "tagName", "strategy", "value", "depth", "isUnique",
                  "totalScore", "grade", "eloRating">>>>
              \o Flatten([k \in 1..Len(r.pages) |->
                    [i \in 1..Len(r.pages[k].scored) |->
                        LET s == r.pages[k].scored[i]
                        IN  <<r.pages[k].url, s.locator.tagName, s.locator.strategy,
                              <<"\"">> \o DoubleQuotes(s.locator.value) \o <<"\"">>,
                              s.locator.depth, s.locator.isUnique,
                              s.totalScore, s.grade, s.eloRating>>]])]

\* the report of a finished run over one URL or MaxUrls URLs, every page scanned
InitConsumers ==
    /\ urls \in {[i \in 1..n |-> Url(i)] : n \in 1..MaxUrls}
    /\ urlIndex = Len(urls) + 1
    /\ pages \in {ps \in SeqsUpTo({scorePageScan(scanPageLocators(Url(i), 0, results)) :
                                       i \in 1..MaxUrls, results \in PageResults}, MaxUrls) :
                     /\ Len(ps) = Len(urls)
                     /\ \A k \in 1..Len(ps) : ps[k].url = urls[k]}
    /\ errors = <<>>
    /\ report = Some(SiteReport(urls, pages))
    /\ locator = None
    /\ score = None
    /\ prevScore = None
    /\ element = None
    /\ probes = <<>>
    /\ extracted = None
    /\ ScanIdle
    /\ RetryIdle
    /\ ConsumerIdle
    /\ CrawlIdle
    /\ SessionIdle

\* report.pages is the array orchestrate filled, so the sort reorders both
GenerateMarkdownReport ==
    /\ report # None
    /\ LET out == generateMarkdownReport(report[1])
       IN  /\ report' = Some(out.report)
           /\ pages' = out.report.pages
           /\ rendered' = Some(out.text)
    /\ UNCHANGED <<urls, urlIndex, errors, scorerVars, extractorVars, scanVars, retryVars,
                   crawlVars, sessionVars>>

GenerateMarkdown ==
    /\ report # None
    /\ rendered' = Some(generateMarkdown(report[1]))
    /\ UNCHANGED <<orchestrateVars, scorerVars, extractorVars, scanVars, retryVars,
                   crawlVars, sessionVars>>

ExportTrainingData ==
    /\ report # None
    /\ rendered' = Some(exportTrainingData(report[1]))
    /\ UNCHANGED <<orchestrateVars, scorerVars, extractorVars, scanVars, retryVars,
                   crawlVars, sessionVars>>

NextConsumers ==
    \/ GenerateMarkdownReport
    \/ GenerateMarkdown
    \/ ExportTrainingData

SpecConsumers == InitConsumers /\ [][NextConsumers]_vars

----------------------------------------------------------------------------
(* Properties of the consumers                                             *)

\* C22: the consumers of a report leave the report they are given unchanged:
\* the order of report.pages and every page's scored and locators lists are
\* the same after a report, a summary or the training data was generated
C22_ConsumersLeaveReportUnchanged == [][report' = report]_vars

\* the summary generator and exportTrainingData change nothing of the report
C22_SummaryAndExportLeaveReport ==
    [][(GenerateMarkdown \/ ExportTrainingData) => report' = report]_vars

\* generateMarkdownReport has moved a page: the report lists the pages in
\* another order than scannedUrls while every page was scanned
C22_PagesReordered ==
    /\ rendered # None
    /\ rendered[1].kind = "report"
    /\ Len(report[1].pages) = 2
    /\ report[1].pages[1].url = report[1].scannedUrls[2]

----------------------------------------------------------------------------
(* crawl.ts: the queue loop                                                *)

MaxCrawlPages == 3

MaxCrawlDepth == 2

sOtherHostUrl == <<"h","t","t","p","s",":","/","/","w","w","w",".","b",".","t","e","s","t","/","p","1">>

sWwwUrl == <<"h","t","t","p","s",":","/","/","w","w","w",".","a",".","t","e","s","t","/","p","9">>

RECURSIVE UpToSlash(_)
UpToSlash(chars) ==
    IF chars = <<>> \/ Head(chars) = "/" THEN <<>>
    ELSE <<Head(chars)>> \o UpToSlash(Tail(chars))

\* new URL(link).hostname.replace(/^www\./, "") of an https URL without
\* credentials or port
Hostname(url) ==
    LET host == UpToSlash(SubSeq(url, 9, Len(url)))
    IN  IF Len(host) >= 4 /\ SubSeq(host, 1, 4) = <<"w", "w", "w", ".">>
        THEN SubSeq(host, 5, Len(host)) ELSE host

\* the links of one page, link after link
RECURSIVE AddLinks(_, _, _, _, _, _)
AddLinks(c, links, current, depth, limits, seedHost) ==
    IF links = <<>> THEN c
    ELSE LET link == Head(links)
         IN  IF limits.sameHost /\ Hostname(link) # seedHost
             THEN AddLinks(c, Tail(links), current, depth, limits, seedHost)
             ELSE LET fresh == ~Includes(c.discovered, link)
                      c1 == IF fresh
                            THEN [c EXCEPT
                                    !.discovered = Append(@, link),
                                    !.records = Append(@, [url |-> link, depth |-> depth + 1,
                                                          discoveredFrom |-> Some(current)]),
                                    !.queue = Append(@, [url |-> link, depth |-> depth + 1])]
                            ELSE c
                      c2 == [c1 EXCEPT !.edges = Append(@, [from |-> current, to |-> link,
                                                           depth |-> depth + 1])]
                  IN  IF Len(c2.discovered) >= limits.maxPages
                      THEN c2
                      ELSE AddLinks(c2, Tail(links), current, depth, limits, seedHost)

\* one iteration of the earlier loop, which adds the URL to visited before it
\* looks at the depth
crawlIterationVisitBeforeDepth(c, limits, seedHost, outcome) ==
    LET item == Head(c.queue)
        c0   == [c EXCEPT !.queue = Tail(@)]
    IN  IF Includes(c.visited, item.url) THEN c0
        ELSE LET c1 == [c0 EXCEPT !.visited = Append(@, item.url)]
             IN  IF item.depth > limits.maxDepth THEN c1
                 ELSE LET c2 == [c1 EXCEPT !.gotos = Append(@, item)]
                      IN  IF outcome = None THEN c2
                          ELSE AddLinks(c2, outcome[1], item.url, item.depth, limits, seedHost)

\* one iteration of the loop: the item is shifted off the queue, skipped when
\* visited or too deep, else visited; outcome is None when page.goto or the
\* reading of the hrefs throws, else Some(what extractLinks returns)
crawlIteration(c, limits, seedHost, outcome) ==
    LET item == Head(c.queue)
        c0   == [c EXCEPT !.queue = Tail(@)]
    IN  IF Includes(c.visited, item.url) THEN c0
        ELSE IF item.depth > limits.maxDepth THEN c0
        ELSE LET c1 == [c0 EXCEPT !.visited = Append(@, item.url),
                                  !.gotos = Append(@, item)]
             IN  IF outcome = None THEN c1
                 ELSE AddLinks(c1, outcome[1], item.url, item.depth, limits, seedHost)

\* what extractLinks may return for a page of the site
CrawlLinkLists ==
    { <<>>,
      <<Url(2), Url(3)>>,
      <<Url(2), Url(2), Url(1)>>,
      <<sOtherHostUrl, Url(3), Url(4)>>,
      <<Url(4), sWwwUrl, Url(2)>>,
      <<Url(1), Url(4)>> }

CrawlState ==
    [queue |-> queue, visited |-> visited, discovered |-> discovered,
     records |-> records, edges |-> edges, gotos |-> gotos]

\* the state before the loop, the seed enqueued and discovered
InitCrawl ==
    /\ crawlLimits \in {Some([maxPages |-> p, maxDepth |-> d, sameHost |-> h]) :
                           p \in 1..MaxCrawlPages, d \in 1..MaxCrawlDepth, h \in BOOLEAN}
    /\ queue = <<[url |-> Url(1), depth |-> 0]>>
    /\ visited = <<>>
    /\ discovered = <<Url(1)>>
    /\ records = <<[url |-> Url(1), depth |-> 0, discoveredFrom |-> None]>>
    /\ edges = <<>>
    /\ gotos = <<>>
    /\ urls = <<>>
    /\ urlIndex = 1
    /\ pages = <<>>
    /\ errors = <<>>
    /\ report = None
    /\ locator = None
    /\ score = None
    /\ prevScore = None
    /\ element = None
    /\ probes = <<>>
    /\ extracted = None
    /\ ScanIdle
    /\ RetryIdle
    /\ ConsumerIdle
    /\ SessionIdle

CrawlIteration ==
    /\ crawlLimits # None
    /\ Len(queue) > 0
    /\ Len(visited) < crawlLimits[1].maxPages
    /\ \E outcome \in {None} \cup {Some(links) : links \in CrawlLinkLists} :
          LET c == crawlIteration(CrawlState, crawlLimits[1], Hostname(Url(1)), outcome)
          IN  /\ queue' = c.queue
              /\ visited' = c.visited
              /\ discovered' = c.discovered
              /\ records' = c.records
              /\ edges' = c.edges
              /\ gotos' = c.gotos
    /\ UNCHANGED <<crawlLimits, orchestrateVars, scorerVars, extractorVars, scanVars,
                   retryVars, consumerVars, sessionVars>>

NextCrawl == CrawlIteration

SpecCrawl == InitCrawl /\ [][NextCrawl]_vars

----------------------------------------------------------------------------
(* Properties of the crawl                                                 *)

NoDuplicates(seq) == \A i, j \in 1..Len(seq) : seq[i] = seq[j] => i = j

\* the depth the URL was recorded with when it was discovered
RecordedDepth(url) ==
    (CHOOSE r \in {records[i] : i \in 1..Len(records)} : r.url = url).depth

\* C23: in every state of the queue loop at most maxPages URLs are visited,
\* every visited URL has link depth <= maxDepth, and no URL is visited or
\* enqueued more than once
C23_CrawlLimitsRespected ==
    crawlLimits # None =>
        /\ Len(visited) <= crawlLimits[1].maxPages
        /\ \A i \in 1..Len(visited) : RecordedDepth(visited[i]) <= crawlLimits[1].maxDepth
        /\ \A i \in 1..Len(gotos) : gotos[i].depth <= crawlLimits[1].maxDepth
        /\ NoDuplicates(visited)
        /\ NoDuplicates([i \in 1..Len(gotos) |-> gotos[i].url])
        /\ NoDuplicates([i \in 1..Len(records) |-> records[i].url])
        /\ NoDuplicates([i \in 1..Len(queue) |-> queue[i].url])
        /\ \A i \in 1..Len(queue) : Includes(discovered, queue[i].url)

\* a URL found one level too deep has been taken off the queue and left
\* unvisited, after two pages were visited and a link was met a second time
C23_Witness ==
    /\ crawlLimits # None
    /\ Len(visited) >= 2
    /\ \E i \in 1..Len(records) :
          /\ records[i].depth > crawlLimits[1].maxDepth
          /\ ~Includes(visited, records[i].url)
          /\ \A k \in 1..Len(queue) : queue[k].url # records[i].url
    /\ Len(edges) >= Len(records)

----------------------------------------------------------------------------
(* Properties of an abandoned extraction                                   *)

\* locators, seenIds and the issue counters and lists
Accumulators(acc) == [locators |-> acc.locators, seenIds |-> acc.seenIds, issues |-> acc.issues]

\* C24: the accumulators change only in the iteration of the element being
\* processed and by what its race resolved to; an iteration the timer has
\* won leaves locators, seenIds and the issues as they were, and so does the
\* later settlement of the abandoned extraction
C24_TimedOutResultDiscarded ==
    [][/\ scanAcc' # scanAcc =>
            /\ scanIndex' = scanIndex + 1
            /\ scanAcc' = ProcessElement(scanAcc, scanOutcomes'[scanIndex])
       /\ (scanIndex' = scanIndex + 1 /\ scanOutcomes'[scanIndex] = None) =>
            Accumulators(scanAcc') = Accumulators(scanAcc)]_vars

\* the timer won the race of the first element, whose extraction has since
\* settled with a locator; the loop has gone on and processed another element
C24_Witness ==
    /\ scanPhase # "done"
    /\ scanIndex >= 3
    /\ scanOutcomes[1] = None
    /\ scanElements[1] # None
    /\ 1 \notin inFlight
    /\ scanOutcomes[2] # None
    /\ Len(scanAcc.locators) = 1
    /\ scanAcc.skippedCount = 1

----------------------------------------------------------------------------
(* Properties of the failing-grades message                                *)

\* the numbers N of the messages "N locators have failing grades (D/F)" among
\* the critical issues of the page
FailingGradeCounts(p) ==
    LET issues == p.recommendations.criticalIssues
    IN  {issues[i].nums[1] : i \in {k \in 1..Len(issues) :
            issues[k].text = "${lowScoreCount} locators have failing grades (D/F)"}}

GradedIn(p, grades) == Cardinality({i \in 1..Len(p.scored) : p.scored[i].grade \in grades})

\* the message is there exactly when a locator has one of the grades, and
\* then it carries their number
FailingMessageCounts(p, grades) ==
    IF GradedIn(p, grades) >= 1
    THEN FailingGradeCounts(p) = {GradedIn(p, grades)}
    ELSE FailingGradeCounts(p) = {}

\* C25: the message "N locators have failing grades (D/F)" is among the
\* critical issues exactly when at least one scored locator has grade D or
\* F, and N is the number of scored locators with grade D or F
C25_FailingGradesMessage == PageScored => FailingMessageCounts(pages[1], {"D", "F"})

\* the message counts the locators of grade F
C25_MessageCountsGradeF == PageScored => FailingMessageCounts(pages[1], {"F"})

\* a page whose only locator has grade D carries no such message
C25_GradeDWithoutMessage ==
    /\ PageScored
    /\ Len(pages[1].scored) = 1
    /\ pages[1].scored[1].grade = "D"
    /\ FailingGradeCounts(pages[1]) = {}

\* a page with locators of grade D and of grade F, the message counting
\* those of grade F alone
C25_GradeDNotCounted ==
    /\ PageScored
    /\ GradedIn(pages[1], {"D"}) >= 1
    /\ GradedIn(pages[1], {"F"}) >= 1
    /\ FailingGradeCounts(pages[1]) = {GradedIn(pages[1], {"F"})}

----------------------------------------------------------------------------
(* Properties of the alternatives bonus                                    *)

IsPrimary(loc, a) == a.strategy = loc.strategy /\ a.value = loc.value

\* the unique alternatives of a strategy score of 75 or more
GoodAlternatives(loc) ==
    {i \in 1..Len(loc.alternatives) :
        loc.alternatives[i].isUnique /\ STRATEGY_SCORES[loc.alternatives[i].strategy] >= 75}

\* those of them that are not the primary candidate itself
AdditionalGoodAlternatives(loc) ==
    {i \in GoodAlternatives(loc) : ~IsPrimary(loc, loc.alternatives[i])}

TieredBonus(n) == IF n >= 3 THEN 15 ELSE IF n = 2 THEN 10 ELSE IF n = 1 THEN 5 ELSE 0

\* the stability score were the bonus that of n alternatives
StabilityWithBonusFor(loc, n) ==
    Clamp(STRATEGY_SCORES[loc.strategy] - ClassPenalty(loc) - TextPenalty(loc)
          + TieredBonus(n) + SemanticBonus(loc))

\* C26: the alternatives bonus of an extracted locator is 0, +5, +10 or +15
\* for 0, 1, 2 and 3 or more unique high-quality alternatives other than the
\* primary candidate itself; a locator whose only unique high-quality
\* candidate is its own primary gets no bonus
C26_BonusCountsAdditionalAlternatives ==
    score # None =>
        score[1].stabilityScore =
            StabilityWithBonusFor(score[1].locator,
                                  Cardinality(AdditionalGoodAlternatives(score[1].locator)))

\* the bonus counts every unique high-quality alternative, the primary
\* candidate's own entry included
C26_BonusCountsEveryAlternative ==
    score # None =>
        score[1].stabilityScore =
            StabilityWithBonusFor(score[1].locator,
                                  Cardinality(GoodAlternatives(score[1].locator)))

\* an extracted locator whose only unique high-quality candidate is its own
\* primary, a unique id, scored 95 for stability: 90 and a bonus of 5
C26_PrimaryCountedAsAlternative ==
    /\ score # None
    /\ score[1].locator.strategy = "id_attr"
    /\ Cardinality(GoodAlternatives(score[1].locator)) = 1
    /\ AdditionalGoodAlternatives(score[1].locator) = {}
    /\ SemanticBonus(score[1].locator) = 0
    /\ score[1].stabilityScore = 95

----------------------------------------------------------------------------
(* Pairs of locators that differ in the primary strategy                   *)

sStyledHash == <<"c","s","s","-","x","9","y","8","z","7">>

\* class lists of no, one, three, five and six dynamic classes
PairClasses ==
    { None,
      Some(<<sBtn, sButtonHash>>),
      Some(<<sCssHash>>),
      Some(<<sBtn, sCssHash, sSt123>>),
      Some(<<sCssHash, sSt123, sCardHash, sModuleHash, sWebpack>>),
      Some(<<sBtn, sCssHash, sSt123, sCardHash, sModuleHash, sWebpack, sStyledHash>>) }

PairTexts == { None, Some(sSubmit), Some(sText31), Some(sText51) }

PairInputs ==
    { [tagName       |-> sButton,
       elementType   |-> "button",
       strategy      |-> s,
       value         |-> sSubmit,
       alternatives  |-> alts,
       xpath         |-> sXPath,
       cssSelector   |-> sCss,
       depth         |-> 4,
       text          |-> text,
       ariaLabel     |-> aria,
       role          |-> None,
       classes       |-> classes,
       id            |-> None,
       name          |-> None,
       isUnique      |-> u,
       siblingCount  |-> 1,
       parentTag     |-> None,
       parentClasses |-> None] :
      s \in Strategies, u \in BOOLEAN, alts \in ScorerAlternatives,
      aria \in {None, Some(sClose)}, classes \in PairClasses, text \in PairTexts }

InitPairs ==
    /\ locator \in PairInputs
    /\ score = None
    /\ prevScore = None
    /\ element = None
    /\ probes = <<>>
    /\ extracted = None
    /\ urls = <<>>
    /\ urlIndex = 1
    /\ pages = <<>>
    /\ errors = <<>>
    /\ report = None
    /\ ScanIdle
    /\ RetryIdle
    /\ ConsumerIdle
    /\ CrawlIdle
    /\ SessionIdle

NextPairs ==
    \/ ScoreLocator
    \/ ScoreWithStrategy

SpecPairs == InitPairs /\ [][NextPairs]_vars

\* the two locators scored are the same but for the primary strategy
SameButStrategy == [First.locator EXCEPT !.strategy = Second.locator.strategy] = Second.locator

\* the locator of the higher strategy-table entry has no lower total
OrderKept ==
    /\ First.strategyScore > Second.strategyScore => First.totalScore >= Second.totalScore
    /\ Second.strategyScore > First.strategyScore => Second.totalScore >= First.totalScore

C27_OrderKeptBelowSixDynamicClasses ==
    (Both /\ SameButStrategy /\ DynamicCount(First.locator.classes) < 6) => OrderKept

\* a class primary of six dynamic classes scored below the same locator
\* with the css fallback as primary
C27_ClassBelowCss ==
    /\ Both
    /\ SameButStrategy
    /\ First.locator.strategy = "class"
    /\ Second.locator.strategy = "css"
    /\ DynamicCount(First.locator.classes) = 6
    /\ First.totalScore < Second.totalScore

----------------------------------------------------------------------------
(* Properties of the uniqueness flag of an extracted locator               *)

\* the scan of a page on which the extracted locator is the only one
ScanOfExtracted == scanPageLocators(Url(1), 0, <<extracted[1]>>)

\* C28: every locator extractLocatorsForElement returns has isUnique = true
\* and a unique alternative, the xpath fallback; scored, its uniquenessScore
\* is 100 and it carries no no-unique-locator warning; the scan counts it
\* among the uniqueLocators
C28_ExtractedAlwaysUnique ==
    Returned =>
        LET scan == ScanOfExtracted
            page == scorePageScan(scan)
        IN  /\ Extracted.isUnique
            /\ \E i \in 1..Len(Extracted.alternatives) :
                  /\ Extracted.alternatives[i].strategy = "xpath"
                  /\ Extracted.alternatives[i].isUnique
            /\ scan.stats.totalLocators = 1
            /\ scan.stats.uniqueLocators = scan.stats.totalLocators
            /\ \A i \in 1..Len(page.scored) :
                  /\ page.scored[i].uniquenessScore = 100
                  /\ page.scored[i].uniquenessScore \notin {80, 60, 20}
                  /\ ~Warns(page.scored[i], WarnNoUnique)
            /\ score # None =>
                  /\ score[1].uniquenessScore = 100
                  /\ ~Warns(score[1], WarnNoUnique)

\* an element whose id is found twice and none of whose probes finds one
\* match: the xpath fallback is the primary, flagged unique and scored 100
\* for uniqueness
C28_Witness ==
    /\ Returned
    /\ score # None
    /\ Extracted.strategy = "xpath"
    /\ \E i \in 1..Len(Extracted.alternatives) :
          Extracted.alternatives[i].strategy = "id_attr" /\ ~Extracted.alternatives[i].isUnique
    /\ \A i \in 1..Len(Extracted.alternatives) :
          Extracted.alternatives[i].isUnique => Extracted.alternatives[i].strategy = "xpath"
    /\ score[1].uniquenessScore = 100

----------------------------------------------------------------------------
(* Properties of the fallback strategies                                   *)

FallbackNotRecommended(o) ==
    (o # None /\ o[1].locator.strategy \in {"xpath", "css"}) =>
        /\ o[1].totalScore < 70
        /\ o[1].locator.strategy = "xpath" => o[1].totalScore <= 62
        /\ o[1].locator.strategy = "css" => o[1].totalScore <= 67
        /\ ~o[1].recommended
        /\ o[1].grade \in {"D", "F"}
        /\ Warns(o[1], WarnBrittle)

\* C29: a locator whose primary strategy is xpath or css is never
\* recommended: its total is at most 62 (xpath) or 67 (css), its grade D or
\* F, and it carries the brittle-locator warning
C29_FallbackNeverRecommended == FallbackNotRecommended(score) /\ FallbackNotRecommended(prevScore)

\* the best case of both: unique, at most three levels deep, three unique
\* high-quality alternatives and an aria-label or role
C29_Witness ==
    /\ Both
    /\ First.locator.strategy = "xpath"
    /\ First.totalScore = 62
    /\ First.grade = "D"
    /\ Second.locator.strategy = "css"
    /\ Second.totalScore = 67
    /\ Second.grade = "D"
    /\ Warns(First, WarnBrittle)
    /\ Warns(Second, WarnBrittle)

----------------------------------------------------------------------------
(* The browser of scanPageLocators, inside the loop of orchestrate         *)

LaunchError == "browserType.launch: Failed to launch chromium"

NewPageError == "browser.newPage: Target page, context or browser has been closed"

ProcessingError == "locator.all: Target crashed"

\* const browser = await chromium.launch({ headless: true })
LaunchBrowser(bs, url) == Append(bs, [url |-> url, page |-> FALSE, open |-> TRUE])

\* finally { await browser.close(); } for the browser launched last
CloseBrowser(bs) == [bs EXCEPT ![Len(bs)].open = FALSE]

\* the catch of orchestrate: the error is pushed and the loop goes on
SessionFails(e) ==
    /\ errors' = Append(errors, [url |-> urls[urlIndex], error |-> e])
    /\ urlIndex' = urlIndex + 1
    /\ sessionPhase' = "idle"
    /\ navAttempt' = 1
    /\ UNCHANGED <<urls, pages, report>>

SessionFrame ==
    UNCHANGED <<scorerVars, extractorVars, scanVars, retryVars, consumerVars, crawlVars>>

\* scanPageLocators is called for the next URL and the browser is launched
SessionLaunch ==
    /\ sessionPhase = "idle"
    /\ urlIndex <= Len(urls)
    /\ browsers' = LaunchBrowser(browsers, urls[urlIndex])
    /\ sessionPhase' = "launched"
    /\ UNCHANGED <<orchestrateVars, navAttempt>>
    /\ SessionFrame

\* chromium.launch rejects: there is no browser, the call throws
SessionLaunchThrows ==
    /\ sessionPhase = "idle"
    /\ urlIndex <= Len(urls)
    /\ SessionFails(LaunchError)
    /\ UNCHANGED browsers
    /\ SessionFrame

\* browser.newPage resolves; the try block is entered
SessionNewPage ==
    /\ sessionPhase = "launched"
    /\ browsers' = [browsers EXCEPT ![Len(browsers)].page = TRUE]
    /\ sessionPhase' = "navigating"
    /\ navAttempt' = 1
    /\ UNCHANGED orchestrateVars
    /\ SessionFrame

\* browser.newPage rejects: the call throws before the try block is entered,
\* so its finally does not run
SessionNewPageThrows ==
    /\ sessionPhase = "launched"
    /\ SessionFails(NewPageError)
    /\ UNCHANGED browsers
    /\ SessionFrame

\* page.goto resolves in one of the attempts of retry
SessionGotoReturns ==
    /\ sessionPhase = "navigating"
    /\ sessionPhase' = "scanning"
    /\ UNCHANGED <<orchestrateVars, browsers, navAttempt>>
    /\ SessionFrame

\* page.goto rejects: retry sleeps and calls again, or, after the last
\* attempt, throws; the finally closes the browser
SessionGotoThrows ==
    /\ sessionPhase = "navigating"
    /\ \E e \in ScanErrors :
          IF navAttempt < DefaultMaxAttempts
          THEN /\ navAttempt' = navAttempt + 1
               /\ UNCHANGED <<orchestrateVars, browsers, sessionPhase>>
          ELSE /\ browsers' = CloseBrowser(browsers)
               /\ SessionFails(e)
    /\ SessionFrame

\* the elements are processed and the scan is returned through the finally;
\* orchestrate scores it and pushes the page
SessionScanReturns ==
    /\ sessionPhase = "scanning"
    /\ \E results \in PageResults :
          pages' = Append(pages, scorePageScan(scanPageLocators(urls[urlIndex], 0, results)))
    /\ browsers' = CloseBrowser(browsers)
    /\ urlIndex' = urlIndex + 1
    /\ sessionPhase' = "idle"
    /\ UNCHANGED <<urls, errors, report, navAttempt>>
    /\ SessionFrame

\* a wait or the collection of the elements throws inside the try block
SessionScanThrows ==
    /\ sessionPhase = "scanning"
    /\ browsers' = CloseBrowser(browsers)
    /\ SessionFails(ProcessingError)
    /\ SessionFrame

\* after the loop: the report
SessionReport ==
    /\ sessionPhase = "idle"
    /\ OrchestrateReport

NextSession ==
    \/ SessionLaunch
    \/ SessionLaunchThrows
    \/ SessionNewPage
    \/ SessionNewPageThrows
    \/ SessionGotoReturns
    \/ SessionGotoThrows
    \/ SessionScanReturns
    \/ SessionScanThrows
    \/ SessionReport

SpecSession == InitOrchestrate /\ [][NextSession]_vars

----------------------------------------------------------------------------
(* Properties of the browser sessions                                      *)

OpenBrowsers == {i \in 1..Len(browsers) : browsers[i].open}

\* C30: every browser scanPageLocators has launched is closed by the time
\* the call has returned or thrown, so at most one browser is open at any
\* time and every page pushed was scanned by a browser of its own
C30_BrowsersClosedOnReturn ==
    /\ sessionPhase = "idle" => OpenBrowsers = {}
    /\ Cardinality(OpenBrowsers) <= 1
    /\ \A k \in 1..Len(pages) :
          Cardinality({i \in 1..Len(browsers) : browsers[i].url = pages[k].url}) = 1

\* a call that has entered its try block leaves its browser closed, whether
\* it returns the scan, navigation fails after the last attempt or the
\* processing throws
C30_ClosedOnceTryEntered ==
    /\ sessionPhase = "idle" =>
          \A i \in OpenBrowsers : ~browsers[i].page
    /\ \A i \in OpenBrowsers : browsers[i].page => i = Len(browsers)
    /\ \A k \in 1..Len(pages) :
          Cardinality({i \in 1..Len(browsers) : browsers[i].url = pages[k].url}) = 1

\* browser.newPage has rejected for the first URL and the browser of the
\* second URL is launched while the first is still open
C30_TwoBrowsersOpen ==
    /\ Len(browsers) = 2
    /\ OpenBrowsers = {1, 2}
    /\ ~browsers[1].page
    /\ Len(errors) = 1
    /\ errors[1].url = browsers[1].url

====
